---------------------------- MODULE Spec2Model ----------------------------
(***************************************************************************)
(* Model of the diff engine of ai-code-reviewer (src/src/diff.ts,          *)
(* src/src/config.ts) and of the review loop (src/src/review.ts).          *)
(*                                                                         *)
(* Strings are sequences of one-character strings, so that startsWith,     *)
(* split, join and the regular expressions of the source are computed and  *)
(* not assumed.  Each function of the source has a frame variable holding  *)
(* its parameters and locals; a frame is Idle in the specifications that   *)
(* do not run that function.                                               *)
(***************************************************************************)
EXTENDS Integers, Sequences, FiniteSets, TLC

VARIABLES parse, filter, split, glob, limit, merge, review,
          render, response, run, github, full

vars == <<parse, filter, split, glob, limit, merge, review,
         render, response, run, github, full>>

Idle == [pc |-> "idle"]

-----------------------------------------------------------------------------
(* Bounds of the model                                                     *)

MaxFiles == 3
MaxAdditions == 1
MaxDeletions == 1
MaxChunkBudget == 2

-----------------------------------------------------------------------------
(* Generic helpers                                                         *)

SeqsUpTo(S, n) == UNION {[1..k -> S] : k \in 0..n}

RECURSIVE SumSeq(_)
SumSeq(s) == IF s = <<>> THEN 0 ELSE Head(s) + SumSeq(Tail(s))

RECURSIVE Flatten(_)
Flatten(ss) == IF ss = <<>> THEN <<>> ELSE Head(ss) \o Flatten(Tail(ss))

-----------------------------------------------------------------------------
(* DiffFile values handed to the partitioner                               *)

SizedFiles ==
  [path : {<<"a">>}, additions : 0..MaxAdditions,
   deletions : 0..MaxDeletions, hunks : {<<>>}]

FileSize(file) == file.additions + file.deletions

RECURSIVE calculateDiffSize(_)
calculateDiffSize(files) ==
  IF files = <<>> THEN 0
  ELSE FileSize(Head(files)) + calculateDiffSize(Tail(files))

-----------------------------------------------------------------------------
(* splitIntoChunks                                                         *)

SplitInit ==
  /\ parse = Idle
  /\ filter = Idle
  /\ glob = Idle /\ limit = Idle /\ merge = Idle /\ review = Idle
  /\ render = Idle /\ response = Idle /\ run = Idle /\ github = Idle /\ full = Idle
  /\ \E files \in SeqsUpTo(SizedFiles, MaxFiles), maxChunkSize \in -1..MaxChunkBudget :
       split = [pc |-> "loop", files |-> files, maxChunkSize |-> maxChunkSize,
                i |-> 1, chunks |-> <<>>, currentChunk |-> <<>>, currentSize |-> 0,
                result |-> <<>>]

\* chunks.push({files: currentChunk, totalLines: currentSize}); reset both
CloseChunkKeepSize(s) ==
  [s EXCEPT !.chunks = Append(@, [files |-> s.currentChunk, totalLines |-> s.currentSize]),
            !.currentChunk = <<>>]

CloseChunk(s) ==
  [s EXCEPT !.chunks = Append(@, [files |-> s.currentChunk, totalLines |-> s.currentSize]),
            !.currentChunk = <<>>,
            !.currentSize = 0]

\* the branch fileSize > maxChunkSize of the loop body
SplitOversized ==
  /\ split.pc = "loop"
  /\ split.i <= Len(split.files)
  /\ LET file == split.files[split.i]
         fileSize == FileSize(file)
         saved == IF Len(split.currentChunk) > 0 THEN CloseChunk(split) ELSE split
     IN /\ fileSize > split.maxChunkSize
        /\ split' = [saved EXCEPT
                       !.chunks = Append(@, [files |-> <<file>>, totalLines |-> fileSize]),
                       !.i = @ + 1]

\* the rest of the loop body: close the chunk if the file would overflow it, then add the file
SplitAccumulateNoCheck ==
  /\ split.pc = "loop"
  /\ split.i <= Len(split.files)
  /\ LET file == split.files[split.i]
         fileSize == FileSize(file)
     IN /\ ~(fileSize > split.maxChunkSize)
        /\ split' = [split EXCEPT
                       !.currentChunk = Append(@, file),
                       !.currentSize = @ + fileSize,
                       !.i = @ + 1]

\* a slip in which the chunk is closed before every file
SplitAccumulateAlwaysCloses ==
  /\ split.pc = "loop"
  /\ split.i <= Len(split.files)
  /\ LET file == split.files[split.i]
         fileSize == FileSize(file)
         saved == IF Len(split.currentChunk) > 0 THEN CloseChunk(split) ELSE split
     IN /\ ~(fileSize > split.maxChunkSize)
        /\ split' = [saved EXCEPT
                       !.currentChunk = Append(@, file),
                       !.currentSize = @ + fileSize,
                       !.i = @ + 1]

SplitAccumulate ==
  /\ split.pc = "loop"
  /\ split.i <= Len(split.files)
  /\ LET file == split.files[split.i]
         fileSize == FileSize(file)
         saved == IF split.currentSize + fileSize > split.maxChunkSize
                     /\ Len(split.currentChunk) > 0
                  THEN CloseChunk(split) ELSE split
     IN /\ ~(fileSize > split.maxChunkSize)
        /\ split' = [saved EXCEPT
                       !.currentChunk = Append(@, file),
                       !.currentSize = @ + fileSize,
                       !.i = @ + 1]

\* after the loop: the last chunk, and return
SplitReturnNoFlush ==
  /\ split.pc = "loop"
  /\ split.i > Len(split.files)
  /\ split' = [split EXCEPT !.result = split.chunks, !.pc = "done"]

\* a slip in which the last chunk is pushed even when it is empty
SplitReturnAlwaysFlushes ==
  /\ split.pc = "loop"
  /\ split.i > Len(split.files)
  /\ split' = [CloseChunk(split) EXCEPT !.result = CloseChunk(split).chunks,
                                        !.pc = "done"]

SplitReturn ==
  /\ split.pc = "loop"
  /\ split.i > Len(split.files)
  /\ LET saved == IF Len(split.currentChunk) > 0 THEN CloseChunk(split) ELSE split
     IN split' = [saved EXCEPT !.result = saved.chunks, !.pc = "done"]

SplitNext ==
  \/ SplitOversized /\ UNCHANGED <<parse, filter, glob, limit, merge, review, render, response, run, github, full>>
  \/ SplitAccumulate /\ UNCHANGED <<parse, filter, glob, limit, merge, review, render, response, run, github, full>>
  \/ SplitReturn /\ UNCHANGED <<parse, filter, glob, limit, merge, review, render, response, run, github, full>>

SpecSplit == SplitInit /\ [][SplitNext]_vars

-----------------------------------------------------------------------------
(* Claims about splitIntoChunks                                            *)

ChunkFiles(chunks) == [k \in 1..Len(chunks) |-> chunks[k].files]
ChunkCounts(chunks) == [k \in 1..Len(chunks) |-> Len(chunks[k].files)]

\* C1: the chunks returned by splitIntoChunks, concatenated in order, are
\* exactly the input sequence, so every file is in exactly one chunk and the
\* chunk file counts add up to the input length.
C1_ChunkCoverage ==
  split.pc = "done" =>
    /\ Flatten(ChunkFiles(split.result)) = split.files
    /\ SumSeq(ChunkCounts(split.result)) = Len(split.files)

C1_Witness ==
  /\ split.pc = "done"
  /\ Len(split.result) >= 2
  /\ \E k \in 1..Len(split.result) : Len(split.result[k].files) >= 2

\* C2: a returned chunk with more than one file has totalLines <= maxChunkSize;
\* a chunk exceeds maxChunkSize only if it is a single file whose own size
\* exceeds it, and every such oversized file is alone in its chunk.
C2_ChunkSizeBound ==
  split.pc = "done" =>
    \A k \in 1..Len(split.result) :
      LET c == split.result[k] IN
        /\ Len(c.files) > 1 => c.totalLines <= split.maxChunkSize
        /\ c.totalLines > split.maxChunkSize =>
             Len(c.files) = 1 /\ FileSize(c.files[1]) > split.maxChunkSize
        /\ \A j \in 1..Len(c.files) :
             FileSize(c.files[j]) > split.maxChunkSize => Len(c.files) = 1

C2_Witness ==
  /\ split.pc = "done"
  /\ \E k \in 1..Len(split.result) :
       Len(split.result[k].files) > 1 /\ split.result[k].totalLines = split.maxChunkSize
  /\ \E k \in 1..Len(split.result) : split.result[k].totalLines > split.maxChunkSize

\* C3: every chunk's totalLines is the sum of additions + deletions of its
\* files, the value calculateDiffSize returns for them.
C3_TotalLinesDerived ==
  /\ split.pc \in {"loop", "done"} =>
       \A k \in 1..Len(split.chunks) :
         split.chunks[k].totalLines = calculateDiffSize(split.chunks[k].files)
  /\ split.pc = "done" =>
       \A k \in 1..Len(split.result) :
         split.result[k].totalLines = calculateDiffSize(split.result[k].files)

C3_Witness ==
  /\ split.pc = "done"
  /\ Len(split.result) >= 2
  /\ \E k \in 1..Len(split.result) :
       Len(split.result[k].files) >= 2 /\ split.result[k].totalLines > 0
  /\ split.result[Len(split.result)].totalLines > 0

\* C26: splitIntoChunks never emits a chunk with an empty files list,
\* whatever the input and maxChunkSize (zero and negative included), and an
\* empty input yields no chunk at all.
C26_NoEmptyChunk ==
  /\ split.pc \in {"loop", "done"} =>
       \A k \in 1..Len(split.chunks) : split.chunks[k].files # <<>>
  /\ split.pc = "done" =>
       /\ \A k \in 1..Len(split.result) : split.result[k].files # <<>>
       /\ split.files = <<>> => split.result = <<>>

\* a negative budget, three files of size zero: one chunk each
C26_Witness ==
  /\ split.pc = "done"
  /\ split.maxChunkSize < 0
  /\ Len(split.files) = 3
  /\ \A k \in 1..3 : FileSize(split.files[k]) = 0
  /\ Len(split.result) = 3
  /\ \A k \in 1..3 : Len(split.result[k].files) = 1

\* the empty input returns no chunk
C26_EmptyInput ==
  split.pc = "done" /\ split.files = <<>> /\ split.result = <<>>

\* C27: the partition is greedy-maximal: for consecutive chunks c[i], c[i+1]
\* of the result, c[i].totalLines plus the size of the first file of c[i+1]
\* is strictly greater than maxChunkSize.
C27_GreedyMaximal ==
  split.pc = "done" =>
    \A k \in 1..(Len(split.result) - 1) :
      split.result[k].totalLines + FileSize(split.result[k + 1].files[1])
        > split.maxChunkSize

\* a chunk of two files filled to the budget, closed by a file that did not fit
C27_Witness ==
  /\ split.pc = "done"
  /\ split.maxChunkSize = 2
  /\ Len(split.result) = 2
  /\ Len(split.result[1].files) = 2
  /\ split.result[1].totalLines = 2
  /\ FileSize(split.result[2].files[1]) = 1

-----------------------------------------------------------------------------
(* Strings                                                                 *)

NL == "\n"

StartsWith(s, prefix) ==
  Len(s) >= Len(prefix) /\ SubSeq(s, 1, Len(prefix)) = prefix

\* s.substring at position i equals lit
HasAt(s, i, lit) ==
  i >= 1 /\ i + Len(lit) - 1 <= Len(s) /\ SubSeq(s, i, i + Len(lit) - 1) = lit

\* String.prototype.split('\n')
RECURSIVE SplitLines(_)
SplitLines(s) ==
  IF \A k \in 1..Len(s) : s[k] # NL THEN <<s>>
  ELSE LET n == CHOOSE k \in 1..Len(s) : s[k] = NL /\ \A j \in 1..(k - 1) : s[j] # NL
       IN <<SubSeq(s, 1, n - 1)>> \o SplitLines(SubSeq(s, n + 1, Len(s)))

\* Array.prototype.join('\n')
RECURSIVE JoinLines(_)
JoinLines(lines) ==
  IF lines = <<>> THEN <<>>
  ELSE IF Len(lines) = 1 THEN lines[1]
  ELSE lines[1] \o <<NL>> \o JoinLines(Tail(lines))

Digits == {"0", "1", "2", "3", "4", "5", "6", "7", "8", "9"}

DigitValue(c) ==
  CASE c = "0" -> 0 [] c = "1" -> 1 [] c = "2" -> 2 [] c = "3" -> 3 [] c = "4" -> 4
    [] c = "5" -> 5 [] c = "6" -> 6 [] c = "7" -> 7 [] c = "8" -> 8 [] c = "9" -> 9

\* parseInt(s, 10) of a string of decimal digits
RECURSIVE parseInt(_)
parseInt(s) ==
  IF s = <<>> THEN 0
  ELSE 10 * parseInt(SubSeq(s, 1, Len(s) - 1)) + DigitValue(s[Len(s)])

\* the longest run of digits of s that starts at position i (\d+ is greedy)
DigitRun(s, i) ==
  IF i > Len(s) THEN <<>>
  ELSE LET ends == {e \in (i - 1)..Len(s) : \A k \in i..e : s[k] \in Digits}
       IN SubSeq(s, i, CHOOSE e \in ends : \A f \in ends : f <= e)

DIFF_GIT == <<"d", "i", "f", "f", " ", "-", "-", "g", "i", "t">>
DIFF_GIT_A == <<"d", "i", "f", "f", " ", "-", "-", "g", "i", "t", " ", "a", "/">>
SEP_B == <<" ", "b", "/">>
P_INDEX == <<"i", "n", "d", "e", "x", " ">>
P_MINUS3 == <<"-", "-", "-">>
P_PLUS3 == <<"+", "+", "+">>
P_NEW_FILE == <<"n", "e", "w", " ", "f", "i", "l", "e">>
P_DELETED_FILE == <<"d", "e", "l", "e", "t", "e", "d", " ", "f", "i", "l", "e">>
P_SIMILARITY == <<"s", "i", "m", "i", "l", "a", "r", "i", "t", "y", " ", "i", "n", "d", "e", "x">>
P_RENAME_FROM == <<"r", "e", "n", "a", "m", "e", " ", "f", "r", "o", "m">>
P_RENAME_TO == <<"r", "e", "n", "a", "m", "e", " ", "t", "o">>
P_BINARY == <<"B", "i", "n", "a", "r", "y", " ", "f", "i", "l", "e", "s">>
AT_AT == <<"@", "@">>
HUNK_OPEN == <<"@", "@", " ", "-">>
HUNK_MID == <<" ", "+">>
HUNK_CLOSE == <<" ", "@", "@">>

-----------------------------------------------------------------------------
(* Diff texts given to parseDiff: up to MaxLines lines of LinePool,        *)
(* newline-joined                                                          *)

MaxLines == 4

L_HEADER == <<"d", "i", "f", "f", " ", "-", "-", "g", "i", "t", " ", "a", "/", "x", " ", "b", "/", "y">>
L_HEADER_TWO_B == <<"d", "i", "f", "f", " ", "-", "-", "g", "i", "t", " ", "a", "/", "x", " ", "b", "/", "y", " ", "b", "/", "z">>
L_HEADER_BAD == <<"d", "i", "f", "f", " ", "-", "-", "g", "i", "t", " ", "x">>
L_NEW_NAME == <<"+", "+", "+", " ", "b", "/", "y">>
L_HUNK == <<"@", "@", " ", "-", "1", ",", "2", " ", "+", "3", " ", "@", "@">>
L_HUNK_BAD == <<"@", "@", " ", "x">>
L_ADD == <<"+", "a">>
L_DEL == <<"-", "a">>

LinePool ==
  {L_HEADER, L_HEADER_TWO_B, L_HEADER_BAD, L_NEW_NAME,
   L_HUNK, L_HUNK_BAD, L_ADD, L_DEL}

DiffTexts == {JoinLines(ls) : ls \in SeqsUpTo(LinePool, MaxLines)}

-----------------------------------------------------------------------------
(* parseDiff                                                               *)

\* line.startsWith('diff --git')
IsFileHeader(line) == StartsWith(line, DIFF_GIT)

\* the file metadata lines that are skipped
IsMetadata(line) ==
  \/ StartsWith(line, P_INDEX)
  \/ StartsWith(line, P_MINUS3)
  \/ StartsWith(line, P_PLUS3)
  \/ StartsWith(line, P_NEW_FILE)
  \/ StartsWith(line, P_DELETED_FILE)
  \/ StartsWith(line, P_SIMILARITY)
  \/ StartsWith(line, P_RENAME_FROM)
  \/ StartsWith(line, P_RENAME_TO)
  \/ StartsWith(line, P_BINARY)

\* line.startsWith('@@')
IsHunkMarker(line) == StartsWith(line, AT_AT)

\* the positions p of ' b/' that /diff --git a\/(.*) b\/(.*)/ can use: some
\* 'diff --git a/' ends before p
SepPositions(line) ==
  {p \in 1..Len(line) :
     /\ HasAt(line, p, SEP_B)
     /\ \E i \in 1..Len(line) : HasAt(line, i, DIFF_GIT_A) /\ i + Len(DIFF_GIT_A) <= p}

\* match ? match[1] : '' -- a slip that takes the old-side capture group
FilePathOld(line) ==
  LET seps == SepPositions(line)
      first == {i \in 1..Len(line) : HasAt(line, i, DIFF_GIT_A)}
  IN IF seps = {} THEN <<>>
     ELSE LET p == CHOOSE p \in seps : \A q \in seps : q <= p
              i == CHOOSE i \in first : \A j \in first : i <= j
          IN SubSeq(line, i + Len(DIFF_GIT_A), p - 1)

\* const match = line.match(/diff --git a\/(.*) b\/(.*)/); match ? match[2] : ''
\* the first (.*) is greedy, so the second group starts after the last ' b/'
FilePath(line) ==
  LET seps == SepPositions(line)
  IN IF seps = {} THEN <<>>
     ELSE LET p == CHOOSE p \in seps : \A q \in seps : q <= p
          IN SubSeq(line, p + Len(SEP_B), Len(line))

\* /@@ -(\d+)(?:,(\d+))? \+(\d+)(?:,(\d+))? @@/ tried at position i of line.
\* (?:,(\d+))? at position i: the digits it captures, <<>> when it takes no part
OptionalCount(s, i) == IF HasAt(s, i, <<",">>) THEN DigitRun(s, i + 1) ELSE <<>>

\* the position after (\d+) at position i
AfterDigits(s, i) == i + Len(DigitRun(s, i))

\* the position after (?:,(\d+))? at position i
AfterOptionalCount(s, i) ==
  IF OptionalCount(s, i) = <<>> THEN i ELSE i + 1 + Len(OptionalCount(s, i))

\* where the parts of the expression start when it is tried at position i
OldStartAt(line, i) == i + Len(HUNK_OPEN)
OldLinesAt(line, i) == AfterDigits(line, OldStartAt(line, i))
MidAt(line, i) == AfterOptionalCount(line, OldLinesAt(line, i))
NewStartAt(line, i) == MidAt(line, i) + Len(HUNK_MID)
NewLinesAt(line, i) == AfterDigits(line, NewStartAt(line, i))
CloseAt(line, i) == AfterOptionalCount(line, NewLinesAt(line, i))

HunkMatchAt(line, i) ==
  [ok |-> /\ HasAt(line, i, HUNK_OPEN)
          /\ DigitRun(line, OldStartAt(line, i)) # <<>>
          /\ HasAt(line, MidAt(line, i), HUNK_MID)
          /\ DigitRun(line, NewStartAt(line, i)) # <<>>
          /\ HasAt(line, CloseAt(line, i), HUNK_CLOSE),
   g1 |-> DigitRun(line, OldStartAt(line, i)),
   g2 |-> OptionalCount(line, OldLinesAt(line, i)),
   g3 |-> DigitRun(line, NewStartAt(line, i)),
   g4 |-> OptionalCount(line, NewLinesAt(line, i))]

\* line.match(...) : the leftmost match, or ok = FALSE
HunkMatch(line) ==
  LET starts == {i \in 1..Len(line) : HunkMatchAt(line, i).ok}
  IN IF starts = {} THEN [ok |-> FALSE]
     ELSE HunkMatchAt(line, CHOOSE i \in starts : \A j \in starts : i <= j)

\* match[k] || '1'
OrOne(g) == IF g = <<>> THEN <<"1">> ELSE g

\* entry of parseDiff; currentFile is <<>> for null and <<file>> otherwise,
\* currentHunk is 0 for null and otherwise the hunk object's place in heap;
\* a file's hunks are references into heap until the result is returned
ParseStart(diffContent) ==
  [pc |-> "loop", diffContent |-> diffContent, lines |-> SplitLines(diffContent),
   i |-> 1, files |-> <<>>, currentFile |-> <<>>, currentHunk |-> 0,
   hunkContent |-> <<>>, heap |-> <<>>, result |-> <<>>]

\* currentHunk.content = hunkContent.join('\n'); currentFile.hunks.push(currentHunk)
\* a TypeError is raised when either of them is null
PushHunk(p) ==
  IF p.currentHunk = 0 \/ p.currentFile = <<>>
  THEN [p EXCEPT !.pc = "raised"]
  ELSE [p EXCEPT !.heap[p.currentHunk].content = JoinLines(p.hunkContent),
                 !.currentFile[1].hunks = Append(@, p.currentHunk)]

\* if (currentHunk && currentFile) {...}
SaveHunk(p) ==
  IF p.currentHunk # 0 /\ p.currentFile # <<>> THEN PushHunk(p) ELSE p

\* if (currentFile) { if (currentHunk) {...} files.push(currentFile) }
SaveFile(p) ==
  IF p.currentFile # <<>>
  THEN LET q == IF p.currentHunk # 0 THEN PushHunk(p) ELSE p
       IN [q EXCEPT !.files = Append(@, q.currentFile[1])]
  ELSE p

NewFile(filePath) ==
  [path |-> filePath, additions |-> 0, deletions |-> 0, hunks |-> <<>>]

\* a slip that leaves the previous file's hunk open
OnFileHeaderKeepHunk(p, line) ==
  [SaveFile(p) EXCEPT !.currentFile = <<NewFile(FilePath(line))>>,
                      !.hunkContent = <<>>]

\* the branch line.startsWith('diff --git')
OnFileHeader(p, line) ==
  [SaveFile(p) EXCEPT !.currentFile = <<NewFile(FilePath(line))>>,
                      !.currentHunk = 0,
                      !.hunkContent = <<>>]

\* the branch line.startsWith('@@'); currentHunk is assigned only on a match
OnHunkHeader(p, line) ==
  LET q == SaveHunk(p)
      match == HunkMatch(line)
  IN IF match.ok
     THEN [q EXCEPT !.heap = Append(@, [oldStart |-> parseInt(match.g1),
                                        oldLines |-> parseInt(OrOne(match.g2)),
                                        newStart |-> parseInt(match.g3),
                                        newLines |-> parseInt(OrOne(match.g4)),
                                        content |-> <<>>]),
                    !.currentHunk = Len(q.heap) + 1,
                    !.hunkContent = <<line>>]
     ELSE [q EXCEPT !.hunkContent = <<line>>]

\* the content lines
OnContent(p, line) ==
  IF p.currentHunk # 0
  THEN LET q == [p EXCEPT !.hunkContent = Append(@, line)]
       IN IF StartsWith(line, <<"+">>) /\ ~StartsWith(line, P_PLUS3)
          THEN IF q.currentFile # <<>>
               THEN [q EXCEPT !.currentFile[1].additions = @ + 1] ELSE q
          ELSE IF StartsWith(line, <<"-">>) /\ ~StartsWith(line, P_MINUS3)
          THEN IF q.currentFile # <<>>
               THEN [q EXCEPT !.currentFile[1].deletions = @ + 1] ELSE q
          ELSE q
  ELSE p

\* which branch of the loop body takes the line
Branch(line) ==
  IF IsFileHeader(line) THEN "file"
  ELSE IF IsMetadata(line) THEN "metadata"
  ELSE IF IsHunkMarker(line) THEN "hunk"
  ELSE "content"

\* one iteration of the loop
ParseLine(p) ==
  LET line == p.lines[p.i]
      q == CASE Branch(line) = "file" -> OnFileHeader(p, line)
             [] Branch(line) = "metadata" -> p
             [] Branch(line) = "hunk" -> OnHunkHeader(p, line)
             [] Branch(line) = "content" -> OnContent(p, line)
  IN IF q.pc = "raised" THEN q ELSE [q EXCEPT !.i = @ + 1]

\* the files as the caller sees them: every hunk reference read from heap
Deref(files, heap) ==
  [k \in 1..Len(files) |->
     [files[k] EXCEPT !.hunks = [h \in 1..Len(files[k].hunks) |-> heap[files[k].hunks[h]]]]]

\* a slip that forgets the file still open at the end of the input
ParseEndNoFlush(p) ==
  [p EXCEPT !.result = Deref(p.files, p.heap), !.pc = "done"]

\* after the loop: save the last file, return files
ParseEnd(p) ==
  LET q == SaveFile(p)
  IN IF q.pc = "raised" THEN q
     ELSE [q EXCEPT !.result = Deref(q.files, q.heap), !.pc = "done"]

RECURSIVE ParseRun(_)
ParseRun(p) ==
  IF p.pc = "raised" THEN p
  ELSE IF p.i > Len(p.lines) THEN ParseEnd(p)
  ELSE ParseRun(ParseLine(p))

\* parseDiff as a function of the diff text
parseDiff(diffContent) == ParseRun(ParseStart(diffContent)).result

ParseInit ==
  /\ \E diffContent \in DiffTexts : parse = ParseStart(diffContent)
  /\ filter = Idle
  /\ split = Idle
  /\ glob = Idle /\ limit = Idle /\ merge = Idle /\ review = Idle
  /\ render = Idle /\ response = Idle /\ run = Idle /\ github = Idle /\ full = Idle

AtLine(kind) ==
  /\ parse.pc = "loop"
  /\ parse.i <= Len(parse.lines)
  /\ Branch(parse.lines[parse.i]) = kind

ParseFileHeader == AtLine("file") /\ parse' = ParseLine(parse)

ParseMetadata == AtLine("metadata") /\ parse' = ParseLine(parse)

ParseHunkHeader == AtLine("hunk") /\ parse' = ParseLine(parse)

ParseContent == AtLine("content") /\ parse' = ParseLine(parse)

ParseReturn ==
  /\ parse.pc = "loop"
  /\ parse.i > Len(parse.lines)
  /\ parse' = ParseEnd(parse)

ParseNext ==
  \/ ParseFileHeader /\ UNCHANGED <<filter, split, glob, limit, merge, review, render, response, run, github, full>>
  \/ ParseMetadata /\ UNCHANGED <<filter, split, glob, limit, merge, review, render, response, run, github, full>>
  \/ ParseHunkHeader /\ UNCHANGED <<filter, split, glob, limit, merge, review, render, response, run, github, full>>
  \/ ParseContent /\ UNCHANGED <<filter, split, glob, limit, merge, review, render, response, run, github, full>>
  \/ ParseReturn /\ UNCHANGED <<filter, split, glob, limit, merge, review, render, response, run, github, full>>

SpecParse == ParseInit /\ [][ParseNext]_vars

-----------------------------------------------------------------------------
(* Claims about parseDiff                                                  *)

IsAddLine(line) == StartsWith(line, <<"+">>) /\ ~StartsWith(line, P_PLUS3)
IsDelLine(line) == StartsWith(line, <<"-">>) /\ ~StartsWith(line, P_MINUS3)

CountAddLines(lines) == Cardinality({k \in 1..Len(lines) : IsAddLine(lines[k])})
CountDelLines(lines) == Cardinality({k \in 1..Len(lines) : IsDelLine(lines[k])})

TotalAdditions(files) == SumSeq([k \in 1..Len(files) |-> files[k].additions])
TotalDeletions(files) == SumSeq([k \in 1..Len(files) |-> files[k].deletions])

WellFormedHunkLine(line) == Branch(line) = "hunk" /\ HunkMatch(line).ok
MalformedHunkLine(line) == Branch(line) = "hunk" /\ ~HunkMatch(line).ok

\* line k comes after a well-formed hunk header of the file section it is in
AfterHunkHeader(lines, k) ==
  \E f \in 1..Len(lines), j \in 1..Len(lines) :
    /\ f < j /\ j < k
    /\ IsFileHeader(lines[f])
    /\ WellFormedHunkLine(lines[j])
    /\ \A m \in (j + 1)..(k - 1) : ~IsFileHeader(lines[m])

\* C4 as stated: the additions of all files add up to the number of input
\* lines starting with '+' but not '+++', the deletions to the number of
\* input lines starting with '-' but not '---'.
C4_CountsAllLines ==
  parse.pc = "done" =>
    /\ TotalAdditions(parse.result) = CountAddLines(parse.lines)
    /\ TotalDeletions(parse.result) = CountDelLines(parse.lines)

\* C4 amended: the additions (deletions) of all files add up to the number of
\* input lines starting with '+' but not '+++' ('-' but not '---') that come
\* after a well-formed hunk header of the same file section.
C4_CountsLinesInHunks ==
  parse.pc = "done" =>
    /\ TotalAdditions(parse.result) =
         Cardinality({k \in 1..Len(parse.lines) :
                        IsAddLine(parse.lines[k]) /\ AfterHunkHeader(parse.lines, k)})
    /\ TotalDeletions(parse.result) =
         Cardinality({k \in 1..Len(parse.lines) :
                        IsDelLine(parse.lines[k]) /\ AfterHunkHeader(parse.lines, k)})

C4_Witness ==
  /\ parse.pc = "done"
  /\ TotalAdditions(parse.result) >= 1
  /\ CountAddLines(parse.lines) > TotalAdditions(parse.result)

\* C5: each returned file's additions (deletions) equal the number of lines
\* starting with '+' but not '+++' ('-' but not '---') in the content of the
\* hunks of its hunks list, summed over the list.
C5_CountsMatchHunkContent ==
  parse.pc = "done" =>
    \A n \in 1..Len(parse.result) :
      LET file == parse.result[n] IN
        /\ file.additions =
             SumSeq([h \in 1..Len(file.hunks) |->
                       CountAddLines(SplitLines(file.hunks[h].content))])
        /\ file.deletions =
             SumSeq([h \in 1..Len(file.hunks) |->
                       CountDelLines(SplitLines(file.hunks[h].content))])

FileHeaders(lines) == SelectSeq(lines, IsFileHeader)

\* C6: parseDiff returns one file per input line starting with 'diff --git',
\* in the order of those lines; without such a line (the empty text included)
\* it returns the empty sequence; and the end of the input closes the open
\* hunk and file as a further file header would: parsing the text followed by
\* one more header gives the same files followed by the new, empty one.
C6_OneFilePerHeader ==
  parse.pc = "done" =>
    LET headers == FileHeaders(parse.lines) IN
      /\ Len(parse.result) = Len(headers)
      /\ \A n \in 1..Len(parse.result) : parse.result[n].path = FilePath(headers[n])
      /\ headers = <<>> => parse.result = <<>>
      /\ parseDiff(parse.diffContent \o <<NL>> \o L_HEADER)
           = Append(parse.result, NewFile(FilePath(L_HEADER)))

C6_Witness ==
  /\ parse.pc = "done"
  /\ Len(parse.result) = 2
  /\ parse.result[1].path # parse.result[2].path
  /\ Len(parse.result[2].hunks) = 1
  /\ Branch(parse.lines[Len(parse.lines)]) = "content"

\* the line is 'diff --git a/' <old> ' b/' <new> with <new> starting at position p + 3
SplitsAt(line, p) ==
  /\ StartsWith(line, DIFF_GIT_A)
  /\ p > Len(DIFF_GIT_A)
  /\ HasAt(line, p, SEP_B)

NoSepIn(s) == \A q \in 1..Len(s) : ~HasAt(s, q, SEP_B)

\* nowhere in the line is 'diff --git a/' followed by ' b/'
NoHeaderForm(line) ==
  \A i \in 1..Len(line), p \in 1..Len(line) :
    ~(HasAt(line, i, DIFF_GIT_A) /\ p >= i + Len(DIFF_GIT_A) /\ HasAt(line, p, SEP_B))

\* C7 as stated: for a header line 'diff --git a/<old> b/<new>' the path of
\* its file is <new>, whichever way the line reads as that form, and a line
\* starting with 'diff --git' that is not of that form gives a file with path ''.
C7_PathIsNewSide ==
  parse.pc = "done" =>
    LET headers == FileHeaders(parse.lines) IN
      /\ Len(parse.result) = Len(headers)
      /\ \A n \in 1..Len(parse.result) :
           LET line == headers[n] IN
             /\ \A p \in 1..Len(line) :
                  SplitsAt(line, p) =>
                    parse.result[n].path = SubSeq(line, p + Len(SEP_B), Len(line))
             /\ (\A p \in 1..Len(line) : ~SplitsAt(line, p)) =>
                  parse.result[n].path = <<>>

\* C7 amended: parseDiff never raises (no step uses a null file or hunk); for a header line
\* 'diff --git a/<old> b/<new>' the path of its file is the text after the
\* last ' b/' of the line, which is <new> whenever <new> contains no ' b/';
\* a line starting with 'diff --git' in which no 'diff --git a/' is followed
\* by ' b/' still gives a file, with path ''.
C7_PathAfterLastSeparator ==
  /\ parse.pc # "raised"
  /\ parse.pc = "done" =>
       LET headers == FileHeaders(parse.lines) IN
         /\ Len(parse.result) = Len(headers)
         /\ \A n \in 1..Len(parse.result) :
              LET line == headers[n] IN
                /\ \A p \in 1..Len(line) :
                     /\ SplitsAt(line, p)
                     /\ \/ NoSepIn(SubSeq(line, p + Len(SEP_B), Len(line)))
                        \/ \A q \in (p + 1)..Len(line) : ~HasAt(line, q, SEP_B)
                     => parse.result[n].path = SubSeq(line, p + Len(SEP_B), Len(line))
                /\ NoHeaderForm(line) => parse.result[n].path = <<>>

C7_Witness ==
  /\ parse.pc = "done"
  /\ Len(parse.result) = 3
  /\ parse.result[1].path = <<"y">>
  /\ parse.result[2].path = <<>>
  /\ parse.result[3].path = <<"z">>

\* the lines without the malformed hunk headers and the lines that follow
\* each of them up to the next well-formed hunk header or file header
RECURSIVE StripMalformed(_, _)
StripMalformed(lines, skipping) ==
  IF lines = <<>> THEN <<>>
  ELSE LET line == Head(lines) IN
    IF MalformedHunkLine(line) THEN StripMalformed(Tail(lines), TRUE)
    ELSE IF IsFileHeader(line) \/ WellFormedHunkLine(line)
         THEN <<line>> \o StripMalformed(Tail(lines), FALSE)
    ELSE IF skipping THEN StripMalformed(Tail(lines), TRUE)
    ELSE <<line>> \o StripMalformed(Tail(lines), FALSE)

\* C8: a malformed '@@' line creates no hunk and the lines after it, up to
\* the next well-formed hunk header or file header, reach no hunk's content,
\* change no existing hunk and count as no addition or deletion: the result
\* is the one of the text without those lines.
C8_MalformedHunkIgnored ==
  parse.pc = "done" =>
    parse.result = parseDiff(JoinLines(StripMalformed(parse.lines, FALSE)))

\* the last line of the run that starts at line k and stops before the next
\* line starting with '@@' or 'diff --git'
RECURSIVE SpanEnd(_, _)
SpanEnd(lines, k) ==
  IF k + 1 > Len(lines) THEN k
  ELSE IF IsFileHeader(lines[k + 1]) \/ IsHunkMarker(lines[k + 1]) THEN k
  ELSE SpanEnd(lines, k + 1)

\* for each well-formed hunk header inside a file, in order, the header and
\* the lines up to the next '@@' or 'diff --git' line, newline-joined
RECURSIVE VerbatimHunks(_, _, _)
VerbatimHunks(lines, k, inFile) ==
  IF k > Len(lines) THEN <<>>
  ELSE IF IsFileHeader(lines[k]) THEN VerbatimHunks(lines, k + 1, TRUE)
  ELSE IF inFile /\ WellFormedHunkLine(lines[k])
       THEN <<JoinLines(SubSeq(lines, k, SpanEnd(lines, k)))>>
              \o VerbatimHunks(lines, k + 1, inFile)
  ELSE VerbatimHunks(lines, k + 1, inFile)

\* the content of every hunk of the files, in order
RECURSIVE HunkContents(_)
HunkContents(files) ==
  IF files = <<>> THEN <<>>
  ELSE [h \in 1..Len(Head(files).hunks) |-> Head(files).hunks[h].content]
         \o HunkContents(Tail(files))

\* C25: the content of every hunk parseDiff creates from a well-formed '@@'
\* header is that header line followed by every input line up to the next
\* line starting with '@@' or 'diff --git' (or the end of the input),
\* unchanged and newline-joined.
C25_HunkContentVerbatim ==
  parse.pc = "done" =>
    HunkContents(parse.result) = VerbatimHunks(parse.lines, 1, FALSE)

\* the same without a malformed '@@' line and without a metadata line
C25_VerbatimWithoutSkippedLines ==
  /\ parse.pc = "done"
  /\ \A k \in 1..Len(parse.lines) :
       ~MalformedHunkLine(parse.lines[k]) /\ ~IsMetadata(parse.lines[k])
  => HunkContents(parse.result) = VerbatimHunks(parse.lines, 1, FALSE)

-----------------------------------------------------------------------------
(* matchPattern, shouldIgnoreFile (config.ts) and filterFiles (diff.ts)    *)

MaxFilterFiles == 2
MaxPatterns == 2

G_DIR_D == <<"*", "*", "/", "d", "/", "*", "*">>
G_STAR_J == <<"*", ".", "j">>
G_UNDER_S == <<"s", "/", "*", "*">>

PatternPool == {G_DIR_D, G_STAR_J, G_UNDER_S}

PathPool ==
  {<<"d", "/", "x">>, <<"a", "/", "d", "/", "x">>, <<"s", "/", "a", ".", "j">>,
   <<"s", "/", "p", "x", "j">>}

\* ignore and include_only are optional: <<>> is undefined, <<list>> a list
Optional(S) == {<<>>} \cup {<<x>> : x \in S}

UserConfigs ==
  [ignore : Optional(SeqsUpTo(PatternPool, MaxPatterns)),
   include_only : Optional(SeqsUpTo(PatternPool, MaxPatterns))]

\* A regular expression is a sequence of atoms: a one-character string is
\* that literal character, the longer strings are the fragments the
\* replacements write.  Patterns are over letters, '.', '*' and '/'.
ESC_DOT == "\\."
GLOBSTAR == "{{GLOBSTAR}}"
SEGMENT == "[^/]*"
ANY == ".*"
ANYWHERE == "(^|.*/)?"

\* a slip that leaves the dots of the pattern unescaped
EscapeDotsSkipped(p) == p

\* .replace(/\./g, '\\.')
EscapeDots(p) == [k \in 1..Len(p) |-> IF p[k] = "." THEN ESC_DOT ELSE p[k]]

\* .replace(/\*\*/g, '{{GLOBSTAR}}') : pairs of stars taken from the left
RECURSIVE MarkGlobstars(_)
MarkGlobstars(p) ==
  IF p = <<>> THEN <<>>
  ELSE IF Len(p) >= 2 /\ p[1] = "*" /\ p[2] = "*"
       THEN <<GLOBSTAR>> \o MarkGlobstars(SubSeq(p, 3, Len(p)))
  ELSE <<p[1]>> \o MarkGlobstars(Tail(p))

\* .replace(/\*/g, '[^/]*')
ReplaceStars(p) == [k \in 1..Len(p) |-> IF p[k] = "*" THEN SEGMENT ELSE p[k]]

\* .replace(/{{GLOBSTAR}}/g, '.*')
ReplaceGlobstars(p) == [k \in 1..Len(p) |-> IF p[k] = GLOBSTAR THEN ANY ELSE p[k]]

\* the regexPattern of matchPattern, without the ^ and $ that RegExp adds
RegexPattern(pattern) ==
  LET converted == ReplaceGlobstars(ReplaceStars(MarkGlobstars(EscapeDots(pattern))))
  IN IF ~StartsWith(pattern, <<"*", "*">>) /\ ~StartsWith(pattern, <<"/">>)
     THEN <<ANYWHERE>> \o converted
     ELSE converted

Drop(s, k) == SubSeq(s, k + 1, Len(s))

\* new RegExp('^' + regex + '$').test(s); ANYWHERE only occurs first, where
\* its alternative ^ matches
RECURSIVE RegexTest(_, _)
RegexTest(regex, s) ==
  IF regex = <<>> THEN s = <<>>
  ELSE LET atom == Head(regex)
           rest == Tail(regex)
       IN CASE atom = ANYWHERE ->
                 \/ RegexTest(rest, s)
                 \/ \E k \in 1..Len(s) : s[k] = "/" /\ RegexTest(rest, Drop(s, k))
            [] atom = ANY ->
                 \E k \in 0..Len(s) : RegexTest(rest, Drop(s, k))
            [] atom = SEGMENT ->
                 \E k \in 0..Len(s) :
                   (\A j \in 1..k : s[j] # "/") /\ RegexTest(rest, Drop(s, k))
            [] atom = ESC_DOT ->
                 s # <<>> /\ s[1] = "." /\ RegexTest(rest, Tail(s))
            [] atom = "." ->
                 s # <<>> /\ RegexTest(rest, Tail(s))
            [] OTHER ->
                 s # <<>> /\ s[1] = atom /\ RegexTest(rest, Tail(s))

matchPattern(filePath, pattern) == RegexTest(RegexPattern(pattern), filePath)

\* const { ignore = [], include_only } = config
IgnoreOf(config) == IF config.ignore = <<>> THEN <<>> ELSE config.ignore[1]

SomeMatch(patterns, filePath) ==
  \E k \in 1..Len(patterns) : matchPattern(filePath, patterns[k])

\* a slip that forgets include_only
shouldIgnoreFileNoInclude(filePath, config) == SomeMatch(IgnoreOf(config), filePath)

shouldIgnoreFile(filePath, config) ==
  IF /\ config.include_only # <<>>
     /\ Len(config.include_only[1]) > 0
     /\ ~SomeMatch(config.include_only[1], filePath)
  THEN TRUE
  ELSE SomeMatch(IgnoreOf(config), filePath)

\* files.filter(file => !shouldIgnoreFile(file.path, config))
RECURSIVE filterFiles(_, _)
filterFiles(files, config) ==
  IF files = <<>> THEN <<>>
  ELSE IF ~shouldIgnoreFile(Head(files).path, config)
       THEN <<Head(files)>> \o filterFiles(Tail(files), config)
       ELSE filterFiles(Tail(files), config)

FilterInit ==
  /\ parse = Idle
  /\ split = Idle
  /\ glob = Idle /\ limit = Idle /\ merge = Idle /\ review = Idle
  /\ render = Idle /\ response = Idle /\ run = Idle /\ github = Idle /\ full = Idle
  /\ \E files \in SeqsUpTo({NewFile(path) : path \in PathPool}, MaxFilterFiles),
        config \in UserConfigs :
       filter = [pc |-> "call", files |-> files, config |-> config, result |-> <<>>]

FilterCall ==
  /\ filter.pc = "call"
  /\ filter' = [filter EXCEPT !.result = filterFiles(filter.files, filter.config),
                              !.pc = "done"]

FilterNext == FilterCall /\ UNCHANGED <<parse, split, glob, limit, merge, review, render, response, run, github, full>>

SpecFilter == FilterInit /\ [][FilterNext]_vars

-----------------------------------------------------------------------------
(* Claims about filterFiles and the glob matcher                           *)

IncludeRestricts(config) ==
  config.include_only # <<>> /\ config.include_only[1] # <<>>

\* the file is to be reviewed
Wanted(file) ==
  /\ IncludeRestricts(filter.config) =>
       \E k \in 1..Len(filter.config.include_only[1]) :
         matchPattern(file.path, filter.config.include_only[1][k])
  /\ \A k \in 1..Len(IgnoreOf(filter.config)) :
       ~matchPattern(file.path, IgnoreOf(filter.config)[k])

\* C9: filterFiles returns, in input order, exactly the files whose path
\* matches some include_only pattern (when include_only is non-empty) and no
\* ignore pattern; an absent or empty include_only restricts nothing, and a
\* file matching both include_only and ignore is dropped.
C9_FilterSelects ==
  filter.pc = "done" => filter.result = SelectSeq(filter.files, Wanted)

C9_Witness ==
  /\ filter.pc = "done"
  /\ IncludeRestricts(filter.config)
  /\ Len(filter.files) = 2
  /\ Len(filter.result) = 1
  /\ \E k \in 1..2 :
       /\ SomeMatch(filter.config.include_only[1], filter.files[k].path)
       /\ SomeMatch(IgnoreOf(filter.config), filter.files[k].path)
  /\ \E k \in 1..2 :
       /\ SomeMatch(filter.config.include_only[1], filter.files[k].path)
       /\ ~SomeMatch(IgnoreOf(filter.config), filter.files[k].path)

\* the path has directory segment dir with something beneath it
HasDirectory(path, dir) ==
  \/ StartsWith(path, dir \o <<"/">>) /\ Len(path) > Len(dir) + 1
  \/ \E i \in 1..Len(path) :
       HasAt(path, i, <<"/">> \o dir \o <<"/">>) /\ Len(path) > i + Len(dir) + 1

\* C10: ** matches zero or more whole segments, so an ignore pattern **/d/**
\* drops every file that has d as a directory segment with something beneath
\* it, also when d is the first segment of the path.
C10_GlobstarMatchesZeroSegments ==
  filter.pc = "done" /\ (\E k \in 1..Len(IgnoreOf(filter.config)) :
                           IgnoreOf(filter.config)[k] = G_DIR_D) =>
    \A n \in 1..Len(filter.result) : ~HasDirectory(filter.result[n].path, <<"d">>)


-----------------------------------------------------------------------------
(* matchPattern on its own: every short pattern against every short path   *)

MaxPathLen == 4
MaxPatternLen == 3

PathChars == {"a", ".", "/"}
GlobChars == {"a", ".", "*", "/"}

MatchInit ==
  /\ parse = Idle /\ filter = Idle /\ split = Idle
  /\ limit = Idle /\ merge = Idle /\ review = Idle
  /\ render = Idle /\ response = Idle /\ run = Idle /\ github = Idle /\ full = Idle
  /\ \E filePath \in SeqsUpTo(PathChars, MaxPathLen),
        pattern \in SeqsUpTo(GlobChars, MaxPatternLen) :
       glob = [pc |-> "call", filePath |-> filePath, pattern |-> pattern,
               result |-> FALSE]

MatchCall ==
  /\ glob.pc = "call"
  /\ glob' = [glob EXCEPT !.result = matchPattern(glob.filePath, glob.pattern),
                          !.pc = "done"]

MatchNext == MatchCall /\ UNCHANGED <<parse, filter, split, limit, merge, review, render, response, run, github, full>>

SpecMatch == MatchInit /\ [][MatchNext]_vars

\* the glob p covers the whole of s: ** covers any text, * any text without
\* a '/', every other character itself
RECURSIVE GlobCovers(_, _)
GlobCovers(p, s) ==
  IF p = <<>> THEN s = <<>>
  ELSE IF Len(p) >= 2 /\ p[1] = "*" /\ p[2] = "*"
       THEN \E k \in 0..Len(s) : GlobCovers(Drop(p, 2), Drop(s, k))
  ELSE IF p[1] = "*"
       THEN \E k \in 0..Len(s) :
              (\A j \in 1..k : s[j] # "/") /\ GlobCovers(Tail(p), Drop(s, k))
  ELSE s # <<>> /\ s[1] = p[1] /\ GlobCovers(Tail(p), Tail(s))

Unanchored(pattern) ==
  ~StartsWith(pattern, <<"*", "*">>) /\ ~StartsWith(pattern, <<"/">>)

\* C11: a pattern that does not start with ** or / matches a path iff it
\* covers the whole path or the whole suffix right after some '/', where *
\* never covers a '/' and '.' covers only a dot; it never matches from the
\* middle of a segment.
C11_MatchesAtSegmentBoundary ==
  glob.pc = "done" /\ Unanchored(glob.pattern) =>
    (glob.result <=>
       \/ GlobCovers(glob.pattern, glob.filePath)
       \/ \E k \in 1..Len(glob.filePath) :
            glob.filePath[k] = "/" /\ GlobCovers(glob.pattern, Drop(glob.filePath, k)))

\* *.a matches a/.a from the segment boundary
C11_Witness ==
  /\ glob.pc = "done"
  /\ glob.pattern = <<"*", ".", "a">>
  /\ glob.filePath = <<"a", "/", ".", "a">>
  /\ glob.result


-----------------------------------------------------------------------------
(* limitFiles                                                              *)

MaxLimitFiles == 3
MaxLimit == 3

\* files of sizes 1, 1, 2 and 0, told apart by their paths
LimitPool ==
  {[path |-> <<"a">>, additions |-> 1, deletions |-> 0, hunks |-> <<>>],
   [path |-> <<"b">>, additions |-> 0, deletions |-> 1, hunks |-> <<>>],
   [path |-> <<"c">>, additions |-> 1, deletions |-> 1, hunks |-> <<>>],
   [path |-> <<"d">>, additions |-> 0, deletions |-> 0, hunks |-> <<>>]}

\* where x goes in a list sorted by the comparator
\* (a, b) => (b.additions + b.deletions) - (a.additions + a.deletions):
\* after every element that does not sort after it (Array.prototype.sort is
\* stable)
RECURSIVE InsertBySize(_, _)
InsertBySize(sorted, x) ==
  IF sorted = <<>> THEN <<x>>
  ELSE IF FileSize(x) - FileSize(Head(sorted)) > 0
       THEN <<x>> \o sorted
  ELSE <<Head(sorted)>> \o InsertBySize(Tail(sorted), x)

\* a slip that leaves the files in input order
SortSkipped(files) == files

\* [...files].sort(comparator)
RECURSIVE SortBySize(_)
SortBySize(files) ==
  IF files = <<>> THEN <<>>
  ELSE InsertBySize(SortBySize(SubSeq(files, 1, Len(files) - 1)), files[Len(files)])

\* Array.prototype.slice(0, end): a negative end counts from the end
SliceTo(s, end) ==
  IF end < 0
  THEN SubSeq(s, 1, IF Len(s) + end > 0 THEN Len(s) + end ELSE 0)
  ELSE SubSeq(s, 1, IF end < Len(s) THEN end ELSE Len(s))

limitFiles(files, maxFiles) ==
  IF Len(files) <= maxFiles THEN files
  ELSE SliceTo(SortBySize(files), maxFiles)

LimitInit ==
  /\ parse = Idle /\ filter = Idle /\ split = Idle
  /\ glob = Idle /\ merge = Idle /\ review = Idle
  /\ render = Idle /\ response = Idle /\ run = Idle /\ github = Idle /\ full = Idle
  /\ \E files \in SeqsUpTo(LimitPool, MaxLimitFiles), maxFiles \in -MaxLimit..MaxLimit :
       limit = [pc |-> "call", files |-> files, maxFiles |-> maxFiles,
                result |-> <<>>, again |-> <<>>]

\* limitFiles(files, n)
LimitCall ==
  /\ limit.pc = "call"
  /\ limit' = [limit EXCEPT !.result = limitFiles(limit.files, limit.maxFiles),
                            !.pc = "called"]

\* limitFiles(limitFiles(files, n), n)
LimitAgain ==
  /\ limit.pc = "called"
  /\ limit' = [limit EXCEPT !.again = limitFiles(limit.result, limit.maxFiles),
                            !.pc = "done"]

LimitNext ==
  \/ LimitCall /\ UNCHANGED <<parse, filter, split, glob, merge, review, render, response, run, github, full>>
  \/ LimitAgain /\ UNCHANGED <<parse, filter, split, glob, merge, review, render, response, run, github, full>>

SpecLimit == LimitInit /\ [][LimitNext]_vars

Min(a, b) == IF a <= b THEN a ELSE b

\* result takes its files from distinct positions of files, and no file
\* left behind is larger than a file taken
TakesLargest(files, result) ==
  \E idx \in [1..Len(result) -> 1..Len(files)] :
    /\ \A j, k \in 1..Len(result) : j # k => idx[j] # idx[k]
    /\ \A k \in 1..Len(result) : result[k] = files[idx[k]]
    /\ \A n \in 1..Len(files) :
         (\A k \in 1..Len(result) : idx[k] # n) =>
           \A k \in 1..Len(result) : FileSize(result[k]) >= FileSize(files[n])

\* C12: for maxFiles >= 0 limitFiles returns min(len(files), maxFiles) files:
\* the input itself when it is within the limit, otherwise maxFiles distinct
\* input files none of which is smaller than a file not returned.
C12_LimitKeepsLargest ==
  limit.pc # "call" /\ limit.maxFiles >= 0 =>
    /\ Len(limit.result) = Min(Len(limit.files), limit.maxFiles)
    /\ Len(limit.files) <= limit.maxFiles => limit.result = limit.files
    /\ Len(limit.files) > limit.maxFiles => TakesLargest(limit.files, limit.result)

\* the smallest file comes first and is the one left out
C12_Witness ==
  /\ limit.pc = "called"
  /\ Len(limit.files) = 3
  /\ limit.maxFiles = 2
  /\ FileSize(limit.files[1]) = 0
  /\ FileSize(limit.files[2]) = 1
  /\ FileSize(limit.files[3]) = 2
  /\ limit.result = <<limit.files[3], limit.files[2]>>

\* C13: limitFiles(limitFiles(files, n), n) = limitFiles(files, n), order
\* included, for every n.
C13_LimitIdempotent ==
  limit.pc = "done" => limit.again = limit.result


-----------------------------------------------------------------------------
(* mergeReviewResults                                                      *)

MaxResults == 3

ISSUE_LOGIC ==
  [severity |-> "critical", category |-> "logic", file |-> <<"a">>, line |-> 1,
   title |-> "t1", description |-> <<"d1">>]
ISSUE_STYLE ==
  [severity |-> "suggestion", category |-> "style", file |-> <<"b">>, line |-> 2,
   title |-> "t2", description |-> <<"d2">>]

Result(summary, issues, positives, assessment) ==
  [summary |-> summary, issues |-> issues, positives |-> positives,
   overall_assessment |-> assessment]

\* results a provider can return: summaries are character sequences, one of
\* them empty; positives may repeat within one result
ResultPool ==
  {Result(<<"s">>, <<ISSUE_LOGIC>>, <<"p">>, "approve"),
   Result(<<"t">>, <<ISSUE_STYLE, ISSUE_LOGIC>>, <<"p", "q">>, "comment"),
   Result(<<"s">>, <<>>, <<"q", "q">>, "request_changes"),
   Result(<<>>, <<ISSUE_LOGIC>>, <<>>, "approve"),
   Result(<<"t">>, <<ISSUE_STYLE>>, <<"q">>, "comment"),
   Result(<<"u">>, <<>>, <<"p">>, "request_changes")}

NO_FILES_TO_REVIEW ==
  <<"N", "o", " ", "f", "i", "l", "e", "s", " ", "t", "o", " ",
    "r", "e", "v", "i", "e", "w">>

\* results.length === 0
MergeNone == Result(NO_FILES_TO_REVIEW, <<>>, <<>>, "approve")

\* for (const result of results) { push(...issues); push(...positives);
\* push(summary) }
RECURSIVE Collect(_, _)
Collect(results, acc) ==
  IF results = <<>> THEN acc
  ELSE Collect(Tail(results),
               [allIssues |-> acc.allIssues \o Head(results).issues,
                allPositives |-> acc.allPositives \o Head(results).positives,
                summaries |-> Append(acc.summaries, Head(results).summary)])

\* a slip in which every result overwrites the assessment
RECURSIVE AssessLastWins(_, _)
AssessLastWins(results, overall_assessment) ==
  IF results = <<>> THEN overall_assessment
  ELSE AssessLastWins(Tail(results), Head(results).overall_assessment)

\* the second loop: request_changes breaks out, comment replaces approve
RECURSIVE Assess(_, _)
Assess(results, overall_assessment) ==
  IF results = <<>> THEN overall_assessment
  ELSE IF Head(results).overall_assessment = "request_changes"
       THEN "request_changes"
  ELSE IF Head(results).overall_assessment = "comment"
       THEN Assess(Tail(results), "comment")
  ELSE Assess(Tail(results), overall_assessment)

\* slips: no separator at all, a separator after every part
JoinWithNothing(parts, sep) == Flatten(parts)

RECURSIVE JoinWithTrailing(_, _)
JoinWithTrailing(parts, sep) ==
  IF parts = <<>> THEN <<>>
  ELSE parts[1] \o sep \o JoinWithTrailing(Tail(parts), sep)

\* Array.prototype.join(sep)
RECURSIVE JoinWith(_, _)
JoinWith(parts, sep) ==
  IF parts = <<>> THEN <<>>
  ELSE IF Len(parts) = 1 THEN parts[1]
  ELSE parts[1] \o sep \o JoinWith(Tail(parts), sep)

\* a slip that keeps the duplicates
SetSpreadKeepsAll(items) == items

\* [...new Set(items)] : the first occurrence of every value, in order
RECURSIVE SetSpread(_)
SetSpread(items) ==
  IF items = <<>> THEN <<>>
  ELSE LET before == SetSpread(SubSeq(items, 1, Len(items) - 1))
           last == items[Len(items)]
       IN IF \E k \in 1..Len(before) : before[k] = last
          THEN before ELSE Append(before, last)

\* results.length >= 2
MergeMany(results) ==
  LET all == Collect(results, [allIssues |-> <<>>, allPositives |-> <<>>,
                                summaries |-> <<>>])
  IN Result(JoinWith(all.summaries, <<" ">>), all.allIssues,
            SetSpread(all.allPositives), Assess(results, "approve"))

\* a slip that rebuilds a single result through the general path
MergeOneRebuilt(results) == MergeMany(results)

\* results.length === 1
MergeOne(results) == results[1]

mergeReviewResults(results) ==
  IF Len(results) = 0 THEN MergeNone
  ELSE IF Len(results) = 1 THEN MergeOne(results)
  ELSE MergeMany(results)


\* results[1..cut] and the rest are the two groups merged separately;
\* cut = 0 when the list is too short to be cut in two
MergeInit ==
  /\ parse = Idle /\ filter = Idle /\ split = Idle
  /\ glob = Idle /\ limit = Idle /\ review = Idle
  /\ render = Idle /\ response = Idle /\ run = Idle /\ github = Idle /\ full = Idle
  /\ \E results \in SeqsUpTo(ResultPool, MaxResults), cut \in 0..MaxResults :
       /\ IF Len(results) < 2 THEN cut = 0 ELSE cut \in 1..(Len(results) - 1)
       /\ merge = [pc |-> "call", results |-> results, cut |-> cut,
                   merged |-> MergeNone, left |-> MergeNone, right |-> MergeNone,
                   regrouped |-> MergeNone]

\* mergeReviewResults(results)
MergeCall ==
  /\ merge.pc = "call"
  /\ merge' = [merge EXCEPT !.merged = mergeReviewResults(merge.results),
                            !.pc = "merged"]

\* mergeReviewResults([mergeReviewResults(xs), mergeReviewResults(ys)])
MergeGroups ==
  /\ merge.pc = "merged"
  /\ merge.cut > 0
  /\ LET xs == SubSeq(merge.results, 1, merge.cut)
         ys == SubSeq(merge.results, merge.cut + 1, Len(merge.results))
     IN merge' = [merge EXCEPT
                    !.left = mergeReviewResults(xs),
                    !.right = mergeReviewResults(ys),
                    !.regrouped = mergeReviewResults(<<mergeReviewResults(xs),
                                                       mergeReviewResults(ys)>>),
                    !.pc = "done"]

MergeNext ==
  \/ MergeCall /\ UNCHANGED <<parse, filter, split, glob, limit, review, render, response, run, github, full>>
  \/ MergeGroups /\ UNCHANGED <<parse, filter, split, glob, limit, review, render, response, run, github, full>>

SpecMerge == MergeInit /\ [][MergeNext]_vars

-----------------------------------------------------------------------------
(* Claims about mergeReviewResults                                         *)

Range(s) == {s[k] : k \in 1..Len(s)}

NoRepeats(s) == \A j, k \in 1..Len(s) : j # k => s[j] # s[k]

\* C14: merging no results gives empty issues, empty positives and
\* 'approve'; merging one result gives that result, every field unchanged.
C14_MergeIdentity ==
  merge.pc # "call" =>
    /\ merge.results = <<>> =>
         /\ merge.merged.issues = <<>>
         /\ merge.merged.positives = <<>>
         /\ merge.merged.overall_assessment = "approve"
    /\ Len(merge.results) = 1 => merge.merged = merge.results[1]

\* a single result with a repeated positive comes back as it is
C14_Witness ==
  /\ merge.pc = "merged"
  /\ Len(merge.results) = 1
  /\ ~NoRepeats(merge.results[1].positives)
  /\ merge.merged = merge.results[1]

\* the summaries with one space between neighbours
RECURSIVE SpaceJoined(_)
SpaceJoined(results) ==
  IF Len(results) = 1 THEN results[1].summary
  ELSE SpaceJoined(SubSeq(results, 1, Len(results) - 1))
         \o <<" ">> \o results[Len(results)].summary

\* C15: for two or more results the merged summary is the input summaries
\* joined by single spaces in input order, and the merged issues are the
\* input issue lists concatenated in input order, nothing dropped, reordered
\* or de-duplicated.
C15_SummaryAndIssuesConcatenate ==
  merge.pc # "call" /\ Len(merge.results) >= 2 =>
    /\ merge.merged.summary = SpaceJoined(merge.results)
    /\ merge.merged.issues =
         Flatten([k \in 1..Len(merge.results) |-> merge.results[k].issues])

\* three results, one with an empty summary, the same issue in two of them
C15_Witness ==
  /\ merge.pc = "merged"
  /\ Len(merge.results) = 3
  /\ merge.results[2].summary = <<>>
  /\ merge.results[1].summary # <<>> /\ merge.results[3].summary # <<>>
  /\ Len(merge.merged.issues) = 4
  /\ ~NoRepeats(merge.merged.issues)

\* C16: for two or more results the merged positives hold no string twice
\* and are, as a set, the union of the input positives.
C16_PositivesAreUnion ==
  merge.pc # "call" /\ Len(merge.results) >= 2 =>
    /\ NoRepeats(merge.merged.positives)
    /\ Range(merge.merged.positives) =
         UNION {Range(merge.results[k].positives) : k \in 1..Len(merge.results)}

\* a positive repeated inside one result and shared between two
C16_Witness ==
  /\ merge.pc = "merged"
  /\ Len(merge.results) = 2
  /\ merge.results[1].positives = <<"q", "q">>
  /\ merge.results[2].positives = <<"p", "q">>
  /\ merge.merged.positives = <<"q", "p">>

Severity(assessment) ==
  CASE assessment = "request_changes" -> 2
    [] assessment = "comment" -> 1
    [] assessment = "approve" -> 0

\* C17: for a non-empty list the merged assessment is the most severe input
\* assessment under request_changes > comment > approve, wherever it stands.
C17_MostSevereWins ==
  merge.pc # "call" /\ merge.results # <<>> =>
    /\ \E k \in 1..Len(merge.results) :
         merge.results[k].overall_assessment = merge.merged.overall_assessment
    /\ \A k \in 1..Len(merge.results) :
         Severity(merge.results[k].overall_assessment)
           <= Severity(merge.merged.overall_assessment)

C17_Witness ==
  /\ merge.pc = "merged"
  /\ Len(merge.results) = 3
  /\ merge.results[1].overall_assessment = "approve"
  /\ merge.results[2].overall_assessment = "request_changes"
  /\ merge.results[3].overall_assessment = "comment"
  /\ merge.merged.overall_assessment = "request_changes"

\* C18: for non-empty xs and ys, merge([merge(xs), merge(ys)]) and
\* merge(xs ++ ys) have the same summary, issues, positives (as sets) and
\* assessment.
C18_MergeAssociative ==
  merge.pc = "done" =>
    /\ merge.regrouped.summary = merge.merged.summary
    /\ merge.regrouped.issues = merge.merged.issues
    /\ Range(merge.regrouped.positives) = Range(merge.merged.positives)
    /\ merge.regrouped.overall_assessment = merge.merged.overall_assessment

\* a group of two and a group of one, the single one with an empty summary
C18_Witness ==
  /\ merge.pc = "done"
  /\ Len(merge.results) = 3
  /\ merge.cut = 2
  /\ merge.results[3].summary = <<>>
  /\ merge.left.overall_assessment = "comment"
  /\ merge.regrouped.overall_assessment = "comment"
  /\ merge.regrouped = merge.merged


-----------------------------------------------------------------------------
(* filesToDiffString, processChunk, createAIClient                         *)

MINUS3_A == <<"-", "-", "-", " ", "a", "/">>
PLUS3_B == <<"+", "+", "+", " ", "b", "/">>

\* a slip that leaves the hunks out
FilePartsNoHunks(file) ==
  <<DIFF_GIT_A \o file.path \o SEP_B \o file.path,
    MINUS3_A \o file.path,
    PLUS3_B \o file.path>>

\* the parts pushed for one file: three header lines, then every hunk's content
FileParts(file) ==
  <<DIFF_GIT_A \o file.path \o SEP_B \o file.path,
    MINUS3_A \o file.path,
    PLUS3_B \o file.path>>
  \o [h \in 1..Len(file.hunks) |-> file.hunks[h].content]

filesToDiffString(files) ==
  JoinLines(Flatten([k \in 1..Len(files) |-> FileParts(files[k])]))

\* what processChunk hands to client.review: the diff string and, when there
\* is more than one chunk, a prompt naming the part and the chunk's paths
\* (<<>> is undefined); chunkIndex counts from 0
processChunk(chunk, chunkIndex, totalChunks) ==
  [diffString |-> filesToDiffString(chunk.files),
   customPrompt |->
     IF totalChunks > 1
     THEN <<[part |-> chunkIndex + 1, of |-> totalChunks,
             paths |-> [k \in 1..Len(chunk.files) |-> chunk.files[k].path]]>>
     ELSE <<>>]

\* createAIClient: TRUE when a client is returned, FALSE when it throws; a
\* missing key or URL is the empty string
createAIClient(config) ==
  CASE config.provider = "openai" -> config.openaiApiKey # ""
    [] config.provider = "anthropic" -> config.anthropicApiKey # ""
    [] config.provider = "grok" -> config.grokApiKey # ""
    [] config.provider = "gemini" -> config.geminiApiKey # ""
    [] config.provider = "ollama" -> config.ollamaUrl # ""
    [] OTHER -> FALSE

DigitChar(n) == CHOOSE c \in Digits : DigitValue(c) = n

FAILED_TO_REVIEW_CHUNK ==
  <<"F", "a", "i", "l", "e", "d", " ", "t", "o", " ", "r", "e", "v", "i", "e", "w", " ", "c", "h", "u", "n", "k", " ">>

\* a slip in which the catch block's result approves
ErrorResultApproves(chunk, chunkIndex, error) ==
  Result(FAILED_TO_REVIEW_CHUNK \o <<DigitChar(chunkIndex + 1)>>,
         <<[severity |-> "warning", category |-> "documentation",
            file |-> IF chunk.files # <<>> THEN chunk.files[1].path ELSE <<>>,
            line |-> 0, title |-> "Review Error",
            description |-> <<"Failed to get AI review for this chunk: ", error>>]>>,
         <<>>, "approve")

\* the result pushed by the catch block for chunks[i]; chunkIndex counts from 0
ErrorResult(chunk, chunkIndex, error) ==
  Result(FAILED_TO_REVIEW_CHUNK \o <<DigitChar(chunkIndex + 1)>>,
         <<[severity |-> "warning", category |-> "documentation",
            file |-> IF chunk.files # <<>> THEN chunk.files[1].path ELSE <<>>,
            line |-> 0, title |-> "Review Error",
            description |-> <<"Failed to get AI review for this chunk: ", error>>]>>,
         <<>>, "comment")

\* the result returned when nothing is left after filtering
NO_FILES_AFTER_FILTERS ==
  <<"N", "o", " ", "f", "i", "l", "e", "s", " ", "t", "o", " ", "r", "e", "v", "i", "e", "w", " ", "a", "f", "t", "e", "r", " ", "a", "p", "p", "l", "y", "i", "n", "g", " ", "f", "i", "l", "t", "e", "r", "s">>

NothingToReview == Result(NO_FILES_AFTER_FILTERS, <<>>, <<>>, "approve")

DEFAULT_MAX_FILES == 20
DEFAULT_MAX_DIFF_SIZE == 5000

\* value ?? fallback, for an optional field
OrElse(optional, fallback) == IF optional = <<>> THEN fallback ELSE optional[1]


-----------------------------------------------------------------------------
(* performReview                                                           *)

MaxReviewFiles == 3

\* one file of the diff: path y with one added line, path z with one added
\* and one deleted line
SECTION_Y == <<L_HEADER, L_HUNK, L_ADD>>
SECTION_Z == <<L_HEADER_TWO_B, L_HUNK, L_ADD, L_DEL>>

ReviewDiffs ==
  {JoinLines(Flatten(sections)) :
     sections \in SeqsUpTo({SECTION_Y, SECTION_Z}, MaxReviewFiles)}

G_ONLY_Z == <<"z">>
G_ANY == <<"*">>

ReviewUserConfigs ==
  [ignore : Optional({<<G_ONLY_Z>>, <<G_ANY>>}), include_only : {<<>>},
   max_files : Optional({1}), max_diff_size : Optional({1})]

ActionConfigs ==
  [provider : {"openai", "other"}, openaiApiKey : {"", "k"},
   anthropicApiKey : {""}, grokApiKey : {""}, geminiApiKey : {""},
   ollamaUrl : {""}, userConfig : ReviewUserConfigs]

\* what client.review can resolve to, and what it can reject with
ProviderResults ==
  {Result(<<"s">>, <<ISSUE_LOGIC>>, <<"p">>, "approve"),
   Result(<<"t">>, <<ISSUE_STYLE>>, <<"q">>, "comment"),
   Result(<<"u">>, <<>>, <<"p">>, "request_changes")}

ProviderErrors == {"Error: e"}

\* requests are the calls of client.review so far, outcomes what came back;
\* client tells whether createAIClient has been called and how it ended
ReviewInit ==
  /\ parse = Idle /\ filter = Idle /\ split = Idle
  /\ glob = Idle /\ limit = Idle /\ merge = Idle
  /\ render = Idle /\ response = Idle /\ run = Idle /\ github = Idle /\ full = Idle
  /\ \E config \in ActionConfigs, rawDiff \in ReviewDiffs :
       review = [pc |-> "start", config |-> config, rawDiff |-> rawDiff,
                 files |-> <<>>, client |-> "none", chunks |-> <<>>, i |-> 0,
                 results |-> <<>>, requests |-> <<>>, outcomes |-> <<>>,
                 result |-> NothingToReview]

\* files = parseDiff(rawDiff); files = filterFiles(files, userConfig)
ReviewParseAndFilter ==
  /\ review.pc = "start"
  /\ review' = [review EXCEPT
                  !.files = filterFiles(parseDiff(review.rawDiff),
                                        review.config.userConfig),
                  !.pc = "filtered"]
  /\ UNCHANGED split

\* if (files.length > maxFiles) files = limitFiles(files, maxFiles)
ReviewLimited(r) ==
  IF Len(r.files) > OrElse(r.config.userConfig.max_files, DEFAULT_MAX_FILES)
  THEN limitFiles(r.files, OrElse(r.config.userConfig.max_files, DEFAULT_MAX_FILES))
  ELSE r.files

\* a slip that asks for the client before looking at the files
ReviewNothingToReviewLate ==
  /\ review.pc = "filtered"
  /\ Len(review.files) = 0
  /\ review' = IF createAIClient(review.config)
               THEN [review EXCEPT !.result = NothingToReview, !.client = "created",
                                   !.pc = "returned"]
               ELSE [review EXCEPT !.client = "failed", !.pc = "raised"]
  /\ UNCHANGED split

\* nothing left after filtering: return at once
ReviewNothingToReview ==
  /\ review.pc = "filtered"
  /\ Len(review.files) = 0
  /\ review' = [review EXCEPT !.result = NothingToReview, !.pc = "returned"]
  /\ UNCHANGED split

\* createAIClient throws
ReviewClientFails ==
  /\ review.pc = "filtered"
  /\ Len(review.files) # 0
  /\ ~createAIClient(review.config)
  /\ review' = [review EXCEPT !.files = ReviewLimited(review), !.client = "failed",
                              !.pc = "raised"]
  /\ UNCHANGED split

\* the call splitIntoChunks(files, maxDiffSize)
ReviewSplit ==
  /\ review.pc = "filtered"
  /\ Len(review.files) # 0
  /\ createAIClient(review.config)
  /\ review' = [review EXCEPT !.files = ReviewLimited(review), !.client = "created",
                              !.pc = "split"]
  /\ split' = [pc |-> "loop", files |-> ReviewLimited(review),
               maxChunkSize |-> OrElse(review.config.userConfig.max_diff_size,
                                       DEFAULT_MAX_DIFF_SIZE),
               i |-> 1, chunks |-> <<>>, currentChunk |-> <<>>, currentSize |-> 0,
               result |-> <<>>]

\* const chunks = ...; const results = []; i = 0
ReviewChunks ==
  /\ review.pc = "split"
  /\ split.pc = "done"
  /\ review' = [review EXCEPT !.chunks = split.result, !.i = 0, !.pc = "loop"]
  /\ split' = Idle

\* await processChunk(client, chunks[i], i, chunks.length): the call is made
ReviewSubmit ==
  /\ review.pc = "loop"
  /\ review.i < Len(review.chunks)
  /\ review' = [review EXCEPT
                  !.requests = Append(@, processChunk(review.chunks[review.i + 1],
                                                      review.i, Len(review.chunks))),
                  !.pc = "await"]
  /\ UNCHANGED split

\* a slip that puts the newest result first
UnshiftResult(results, result) == <<result>> \o results

\* results.push(result)
PushResult(results, result) == Append(results, result)

\* the call resolves: results.push(result); i++
ReviewResolve ==
  /\ review.pc = "await"
  /\ \E result \in ProviderResults :
       review' = [review EXCEPT
                    !.outcomes = Append(@, [ok |-> TRUE, value |-> result]),
                    !.results = PushResult(@, result),
                    !.i = @ + 1,
                    !.pc = "loop"]
  /\ UNCHANGED split

\* a slip without the try/catch: the rejection leaves performReview
ReviewRejectAborts ==
  /\ review.pc = "await"
  /\ \E error \in ProviderErrors :
       review' = [review EXCEPT
                    !.outcomes = Append(@, [ok |-> FALSE, value |-> error]),
                    !.pc = "raised"]
  /\ UNCHANGED split

\* the call rejects: the catch block pushes the error result; i++
ReviewReject ==
  /\ review.pc = "await"
  /\ \E error \in ProviderErrors :
       review' = [review EXCEPT
                    !.outcomes = Append(@, [ok |-> FALSE, value |-> error]),
                    !.results = PushResult(@, ErrorResult(review.chunks[review.i + 1],
                                                          review.i, error)),
                    !.i = @ + 1,
                    !.pc = "loop"]
  /\ UNCHANGED split

\* after the loop: return mergeReviewResults(results)
ReviewReturn ==
  /\ review.pc = "loop"
  /\ review.i >= Len(review.chunks)
  /\ review' = [review EXCEPT !.result = mergeReviewResults(review.results),
                              !.pc = "returned"]
  /\ UNCHANGED split

ReviewNext ==
  \/ ReviewParseAndFilter /\ UNCHANGED <<parse, filter, glob, limit, merge, render, response, run, github, full>>
  \/ ReviewNothingToReview /\ UNCHANGED <<parse, filter, glob, limit, merge, render, response, run, github, full>>
  \/ ReviewClientFails /\ UNCHANGED <<parse, filter, glob, limit, merge, render, response, run, github, full>>
  \/ ReviewSplit /\ UNCHANGED <<parse, filter, glob, limit, merge, render, response, run, github, full>>
  \/ SplitNext
  \/ ReviewChunks /\ UNCHANGED <<parse, filter, glob, limit, merge, render, response, run, github, full>>
  \/ ReviewSubmit /\ UNCHANGED <<parse, filter, glob, limit, merge, render, response, run, github, full>>
  \/ ReviewResolve /\ UNCHANGED <<parse, filter, glob, limit, merge, render, response, run, github, full>>
  \/ ReviewReject /\ UNCHANGED <<parse, filter, glob, limit, merge, render, response, run, github, full>>
  \/ ReviewReturn /\ UNCHANGED <<parse, filter, glob, limit, merge, render, response, run, github, full>>

SpecReview == ReviewInit /\ [][ReviewNext]_vars


-----------------------------------------------------------------------------
(* Claims about performReview                                              *)

Failed(k) == k \in 1..Len(review.outcomes) /\ ~review.outcomes[k].ok

IsReviewError(issue) ==
  /\ issue.severity = "warning"
  /\ issue.category = "documentation"
  /\ issue.title = "Review Error"

\* C19: a provider failure on a chunk never aborts performReview: it has not
\* raised, the chunks are submitted once each, in order, the failed chunk's
\* entry is a result whose single issue is a 'warning' / 'documentation' /
\* 'Review Error', and what is returned is the merge of the entries, the
\* error issue among its issues.
C19_FailureNeverAborts ==
  (\E k \in 1..Len(review.outcomes) : Failed(k)) =>
    /\ review.pc \in {"loop", "await", "returned"}
    /\ Len(review.requests) <= Len(review.chunks)
    /\ \A k \in 1..Len(review.requests) :
         review.requests[k].diffString = filesToDiffString(review.chunks[k].files)
    /\ \A k \in 1..Len(review.outcomes) :
         Failed(k) => /\ Len(review.results[k].issues) = 1
                      /\ IsReviewError(review.results[k].issues[1])
    /\ review.pc = "returned" =>
         /\ Len(review.requests) = Len(review.chunks)
         /\ \A k \in 1..Len(review.outcomes) :
              Failed(k) => \E n \in 1..Len(review.result.issues) :
                             review.result.issues[n] = review.results[k].issues[1]

\* three chunks, the second fails, the review still returns
C19_Witness ==
  /\ review.pc = "returned"
  /\ Len(review.chunks) = 3
  /\ review.outcomes[1].ok /\ ~review.outcomes[2].ok /\ review.outcomes[3].ok
  /\ Len(review.results) = 3
  /\ Len(review.result.issues) = 3

\* C20: the list handed to the merger has one entry per chunk, the i-th
\* entry being the result, real or error, of the i-th chunk of the
\* partition; chunk i+1 is submitted only once chunk i's call has completed
\* or failed.
C20_ResultsInChunkOrder ==
  /\ Len(review.results) = Len(review.outcomes)
  /\ Len(review.requests) =
       IF review.pc = "await" THEN Len(review.results) + 1 ELSE Len(review.results)
  /\ \A k \in 1..Len(review.requests) :
       /\ k <= Len(review.chunks)
       /\ review.requests[k].diffString = filesToDiffString(review.chunks[k].files)
  /\ \A k \in 1..Len(review.results) :
       IF review.outcomes[k].ok
       THEN review.results[k] = review.outcomes[k].value
       ELSE /\ review.results[k].summary = FAILED_TO_REVIEW_CHUNK \o <<DigitChar(k)>>
            /\ review.results[k].issues[1].file = review.chunks[k].files[1].path
  /\ review.pc \in {"loop", "await", "returned"} =>
       Flatten(ChunkFiles(review.chunks)) = review.files
  /\ review.pc = "returned" /\ review.files # <<>> =>
       /\ Len(review.results) = Len(review.chunks)
       /\ review.result = mergeReviewResults(review.results)

\* three different outcomes for the chunks of y, z and y
C20_Witness ==
  /\ review.pc = "returned"
  /\ Len(review.chunks) = 3
  /\ review.chunks[1].files[1].path = <<"y">>
  /\ review.chunks[2].files[1].path = <<"z">>
  /\ review.outcomes[1].ok /\ review.outcomes[1].value.overall_assessment = "approve"
  /\ ~review.outcomes[2].ok
  /\ review.outcomes[3].ok /\ review.outcomes[3].value.overall_assessment = "request_changes"
  /\ review.results[2].issues[1].file = <<"z">>
  /\ review.results[3] = review.outcomes[3].value


-----------------------------------------------------------------------------
(* filesToDiffString on parser output, and parsing its text again          *)

MaxRenderLines == 3

RenderInit ==
  /\ parse = Idle /\ filter = Idle /\ split = Idle /\ glob = Idle
  /\ limit = Idle /\ merge = Idle /\ review = Idle
  /\ response = Idle /\ run = Idle /\ github = Idle /\ full = Idle
  /\ \E lines \in SeqsUpTo(LinePool, MaxRenderLines) :
       render = [pc |-> "parse", diffContent |-> JoinLines(lines),
                 files |-> <<>>, text |-> <<>>, again |-> <<>>]

\* files = parseDiff(d)
RenderParse ==
  /\ render.pc = "parse"
  /\ render' = [render EXCEPT !.files = parseDiff(render.diffContent),
                              !.pc = "render"]

\* text = filesToDiffString(files)
RenderCall ==
  /\ render.pc = "render"
  /\ render' = [render EXCEPT !.text = filesToDiffString(render.files),
                              !.pc = "reparse"]

\* parseDiff(text)
RenderReparse ==
  /\ render.pc = "reparse"
  /\ render' = [render EXCEPT !.again = parseDiff(render.text), !.pc = "done"]

RenderNext ==
  \/ RenderParse /\ UNCHANGED <<parse, filter, split, glob, limit, merge, review, response, run, github, full>>
  \/ RenderCall /\ UNCHANGED <<parse, filter, split, glob, limit, merge, review, response, run, github, full>>
  \/ RenderReparse /\ UNCHANGED <<parse, filter, split, glob, limit, merge, review, response, run, github, full>>

SpecRender == RenderInit /\ [][RenderNext]_vars

\* a newline and the content, for every hunk in order
RECURSIVE HunksText(_)
HunksText(hunks) ==
  IF hunks = <<>> THEN <<>>
  ELSE <<NL>> \o Head(hunks).content \o HunksText(Tail(hunks))

ExpectedFileText(file) ==
  DIFF_GIT_A \o file.path \o SEP_B \o file.path \o <<NL>>
    \o P_MINUS3 \o <<" ", "a", "/">> \o file.path \o <<NL>>
    \o P_PLUS3 \o SEP_B \o file.path
    \o HunksText(file.hunks)

RECURSIVE ExpectedText(_)
ExpectedText(files) ==
  IF files = <<>> THEN <<>>
  ELSE IF Len(files) = 1 THEN ExpectedFileText(files[1])
  ELSE ExpectedFileText(Head(files)) \o <<NL>> \o ExpectedText(Tail(files))

\* C21: filesToDiffString emits, for each file in order, the lines
\* 'diff --git a/<path> b/<path>', '--- a/<path>', '+++ b/<path>' and then
\* the stored content of each of its hunks, in hunk order, all joined by
\* newlines, and nothing else.
C21_RendersHeadersAndHunks ==
  render.pc \in {"reparse", "done"} => render.text = ExpectedText(render.files)

\* two files, the first with a hunk
C21_Witness ==
  /\ render.pc = "reparse"
  /\ Len(render.files) = 2
  /\ Len(render.files[1].hunks) = 1
  /\ render.files[1].path # render.files[2].path
  /\ render.text = ExpectedText(render.files)

\* C28: parseDiff(filesToDiffString(parseDiff(d))) = parseDiff(d), in file
\* order, paths, additions, deletions and every hunk's fields and content.
C28_ReparseIsFixedPoint ==
  render.pc = "done" => render.again = render.files


\* C22: when parsing and filtering leave no files, the empty diff included,
\* performReview returns a result with no issues and 'approve'; it creates no
\* AI client, makes no provider call and does not raise.
C22_NothingToReviewIsNoError ==
  review.pc \notin {"idle", "start"} /\ review.files = <<>> =>
    /\ review.pc \in {"filtered", "returned"}
    /\ review.client = "none"
    /\ review.requests = <<>>
    /\ review.pc = "returned" =>
         /\ review.result.issues = <<>>
         /\ review.result.overall_assessment = "approve"

\* every file of the diff is ignored and no client could have been created
C22_Witness ==
  /\ review.pc = "returned"
  /\ review.rawDiff # <<>>
  /\ review.files = <<>>
  /\ ~createAIClient(review.config)
  /\ review.result.issues = <<>>
  /\ review.result.overall_assessment = "approve"


-----------------------------------------------------------------------------
(* performFullReview                                                       *)

MaxCodePieces == 3

MAX_CODE_CHUNK_SIZE == 10000

\* The code content is a sequence of pieces: a file marker '\n=== FILE: p ==='
\* (what the pattern /\n?=== FILE: .+? ===/g matches), a run of file text, or
\* a run of white space.  len is the number of characters of the piece.
CODE_MARKER == [kind |-> "marker", len |-> 20]
CODE_TEXT == [kind |-> "text", len |-> 9990]
CODE_BLANK == [kind |-> "blank", len |-> 1]

CodePieces == {CODE_MARKER, CODE_TEXT, CODE_BLANK}

\* s.length
RECURSIVE CodeLength(_)
CodeLength(pieces) ==
  IF pieces = <<>> THEN 0 ELSE Head(pieces).len + CodeLength(Tail(pieces))

\* s.trim() is not empty
NotBlank(pieces) == \E k \in 1..Len(pieces) : pieces[k].kind # "blank"

\* the positions of the markers: codeContent.match(filePattern) || []
MarkerPositions(pieces) == {k \in 1..Len(pieces) : pieces[k].kind = "marker"}

\* markers[i] + (parts[i + 1] || ''): the marker at position k with the text
\* up to the next marker
CodeFileAt(pieces, k) ==
  SubSeq(pieces, k,
         IF \E n \in MarkerPositions(pieces) : n > k
         THEN (CHOOSE n \in MarkerPositions(pieces) :
                 n > k /\ \A m \in MarkerPositions(pieces) : m > k => n <= m) - 1
         ELSE Len(pieces))

\* files: one entry per marker, in order (an entry always holds its marker,
\* so content.trim() is never empty)
RECURSIVE CodeFilesFrom(_, _)
CodeFilesFrom(pieces, k) ==
  IF k > Len(pieces) THEN <<>>
  ELSE IF pieces[k].kind = "marker"
       THEN <<CodeFileAt(pieces, k)>> \o CodeFilesFrom(pieces, k + 1)
  ELSE CodeFilesFrom(pieces, k + 1)

\* the grouping loop and the final push
RECURSIVE GroupCode(_, _, _, _)
GroupCode(files, chunks, currentChunk, maxChunkSize) ==
  IF files = <<>>
  THEN IF NotBlank(currentChunk) THEN Append(chunks, currentChunk) ELSE chunks
  ELSE IF CodeLength(currentChunk) + CodeLength(Head(files)) > maxChunkSize
          /\ CodeLength(currentChunk) > 0
       THEN GroupCode(Tail(files), Append(chunks, currentChunk), Head(files),
                      maxChunkSize)
  ELSE GroupCode(Tail(files), chunks, currentChunk \o Head(files), maxChunkSize)

splitCodeIntoChunks(codeContent, maxChunkSize) ==
  IF CodeFilesFrom(codeContent, 1) = <<>> THEN <<codeContent>>
  ELSE GroupCode(CodeFilesFrom(codeContent, 1), <<>>, <<>>, maxChunkSize)

NO_CODE_TO_REVIEW ==
  <<"N", "o", " ", "c", "o", "d", "e", " ", "t", "o", " ", "r", "e", "v", "i", "e", "w">>

NoCodeToReview == Result(NO_CODE_TO_REVIEW, <<>>, <<>>, "approve")

\* the result pushed by the catch block; chunkIndex counts from 0
FullErrorResult(chunkIndex, error) ==
  Result(FAILED_TO_REVIEW_CHUNK \o <<DigitChar(chunkIndex + 1), ":", " ", error>>,
         <<[severity |-> "warning", category |-> "documentation", file |-> <<>>,
            line |-> 0, title |-> "Review Error",
            description |-> <<"Failed to get AI review for chunk ",
                              DigitChar(chunkIndex + 1), ": ", error>>]>>,
         <<>>, "comment")

FullConfigs ==
  {config \in ActionConfigs :
     config.userConfig = [ignore |-> <<>>, include_only |-> <<>>,
                          max_files |-> <<>>, max_diff_size |-> <<>>]}

FullInit ==
  /\ parse = Idle /\ filter = Idle /\ split = Idle /\ glob = Idle
  /\ limit = Idle /\ merge = Idle /\ review = Idle
  /\ render = Idle /\ response = Idle /\ run = Idle /\ github = Idle
  /\ \E config \in FullConfigs, codeContent \in SeqsUpTo(CodePieces, MaxCodePieces) :
       full = [pc |-> "start", config |-> config, codeContent |-> codeContent,
               client |-> "none", chunks |-> <<>>, i |-> 0, results |-> <<>>,
               requests |-> <<>>, outcomes |-> <<>>, result |-> NoCodeToReview]

\* !codeContent || codeContent.trim().length === 0
FullNoCode ==
  /\ full.pc = "start"
  /\ ~NotBlank(full.codeContent)
  /\ full' = [full EXCEPT !.result = NoCodeToReview, !.pc = "returned"]

\* createAIClient throws
FullClientFails ==
  /\ full.pc = "start"
  /\ NotBlank(full.codeContent)
  /\ ~createAIClient(full.config)
  /\ full' = [full EXCEPT !.client = "failed", !.pc = "raised"]

\* client created; chunks = splitCodeIntoChunks(codeContent, 10000); i = 0
FullSplit ==
  /\ full.pc = "start"
  /\ NotBlank(full.codeContent)
  /\ createAIClient(full.config)
  /\ full' = [full EXCEPT
                !.client = "created",
                !.chunks = splitCodeIntoChunks(full.codeContent, MAX_CODE_CHUNK_SIZE),
                !.i = 0,
                !.pc = "loop"]

\* await client.review(chunk, customPrompt): the call is made
FullSubmit ==
  /\ full.pc = "loop"
  /\ full.i < Len(full.chunks)
  /\ full' = [full EXCEPT
                !.requests = Append(@, [chunk |-> full.chunks[full.i + 1],
                                        customPrompt |->
                                          IF Len(full.chunks) > 1
                                          THEN [part |-> full.i + 1,
                                                of |-> Len(full.chunks)]
                                          ELSE [part |-> 1, of |-> 1]]),
                !.pc = "await"]

\* the call resolves: results.push(result); i++
FullResolve ==
  /\ full.pc = "await"
  /\ \E result \in ProviderResults :
       full' = [full EXCEPT
                  !.outcomes = Append(@, [ok |-> TRUE, value |-> result]),
                  !.results = Append(@, result),
                  !.i = @ + 1,
                  !.pc = "loop"]

\* the call rejects: the catch block pushes the error result; i++
FullReject ==
  /\ full.pc = "await"
  /\ \E error \in ProviderErrors :
       full' = [full EXCEPT
                  !.outcomes = Append(@, [ok |-> FALSE, value |-> error]),
                  !.results = Append(@, FullErrorResult(full.i, error)),
                  !.i = @ + 1,
                  !.pc = "loop"]

\* after the loop: return mergeReviewResults(results)
FullReturn ==
  /\ full.pc = "loop"
  /\ full.i >= Len(full.chunks)
  /\ full' = [full EXCEPT !.result = mergeReviewResults(full.results),
                          !.pc = "returned"]

FullNext ==
  \/ FullNoCode /\ UNCHANGED <<parse, filter, split, glob, limit, merge, review, render, response, run, github>>
  \/ FullClientFails /\ UNCHANGED <<parse, filter, split, glob, limit, merge, review, render, response, run, github>>
  \/ FullSplit /\ UNCHANGED <<parse, filter, split, glob, limit, merge, review, render, response, run, github>>
  \/ FullSubmit /\ UNCHANGED <<parse, filter, split, glob, limit, merge, review, render, response, run, github>>
  \/ FullResolve /\ UNCHANGED <<parse, filter, split, glob, limit, merge, review, render, response, run, github>>
  \/ FullReject /\ UNCHANGED <<parse, filter, split, glob, limit, merge, review, render, response, run, github>>
  \/ FullReturn /\ UNCHANGED <<parse, filter, split, glob, limit, merge, review, render, response, run, github>>

\* a run reviews a pull request's diff or the repository's code
ReviewsInit == ReviewInit \/ FullInit

ReviewsNext == ReviewNext \/ FullNext

SpecReviews == ReviewsInit /\ [][ReviewsNext]_vars

FullFailed(k) == k \in 1..Len(full.outcomes) /\ ~full.outcomes[k].ok

ReviewErrors(issues) == {n \in 1..Len(issues) : IsReviewError(issues[n])}

\* C29: when the provider call failed for at least one chunk, the result
\* returned by performReview, and by performFullReview, is never 'approve',
\* whatever the other chunks returned, and its issues hold one 'Review Error'
\* issue per failed chunk.
C29_FailureNeverApproves ==
  /\ review.pc = "returned" /\ (\E k \in 1..Len(review.outcomes) : Failed(k)) =>
       /\ review.result.overall_assessment # "approve"
       /\ Cardinality(ReviewErrors(review.result.issues)) =
            Cardinality({k \in 1..Len(review.outcomes) : Failed(k)})
  /\ full.pc = "returned" /\ (\E k \in 1..Len(full.outcomes) : FullFailed(k)) =>
       /\ full.result.overall_assessment # "approve"
       /\ Cardinality(ReviewErrors(full.result.issues)) =
            Cardinality({k \in 1..Len(full.outcomes) : FullFailed(k)})

\* two of three chunks failed and the third was approved
C29_Witness ==
  /\ review.pc = "returned"
  /\ Len(review.outcomes) = 3
  /\ ~review.outcomes[1].ok /\ ~review.outcomes[3].ok
  /\ review.outcomes[2].ok
  /\ review.outcomes[2].value.overall_assessment = "approve"
  /\ Cardinality(ReviewErrors(review.result.issues)) = 2
  /\ review.result.overall_assessment = "comment"

\* the second of two chunks of code failed and the first was approved
C29_FullWitness ==
  /\ full.pc = "returned"
  /\ Len(full.chunks) = 2
  /\ full.outcomes[1].ok /\ full.outcomes[1].value.overall_assessment = "approve"
  /\ ~full.outcomes[2].ok
  /\ full.result.overall_assessment = "comment"


-----------------------------------------------------------------------------
(* parseReviewResponse (ai/base.ts)                                        *)

MaxResponseTokens == 3

\* JavaScript values: a scalar has a type and its text, a list a type and
\* its items; a value that is no string (no array) keeps only its type
Scalar(type, str) == [type |-> type, str |-> str]
List(type, items) == [type |-> type, items |-> items]

UNDEFINED == Scalar("undefined", "")
NO_LIST == List("undefined", <<>>)

\* what JSON.parse returns: the type of the value and, for an object, the
\* four properties the function reads
JsonValue(type, summary, issues, positives, overall_assessment) ==
  [type |-> type, summary |-> summary, issues |-> issues,
   positives |-> positives, overall_assessment |-> overall_assessment]

NO_VALUE == JsonValue("none", UNDEFINED, NO_LIST, NO_LIST, UNDEFINED)

\* The response is a sequence of tokens: white space, a code fence (three
\* backquotes, written <fence>), the word 'json', a complete JSON text with
\* the value it denotes, or other text.
Token(kind, text, json) == [kind |-> kind, text |-> text, json |-> json]

T_WS == Token("ws", "\n", NO_VALUE)
T_FENCE == Token("fence", "<fence>", NO_VALUE)
T_JSON_WORD == Token("word", "json", NO_VALUE)
T_TEXT == Token("text", "This is not JSON at all", NO_VALUE)

T_COMPLETE ==
  Token("value",
        "{\"summary\":\"Test\",\"issues\":[],\"positives\":[\"Good tests\"],\"overall_assessment\":\"approve\"}",
        JsonValue("object", Scalar("string", "Test"), List("array", <<>>),
                  List("array", <<"Good tests">>), Scalar("string", "approve")))

T_PARTIAL ==
  Token("value", "{\"issues\":[]}",
        JsonValue("object", UNDEFINED, List("array", <<>>), NO_LIST, UNDEFINED))

T_EMPTY_STRINGS ==
  Token("value", "{\"summary\":\"\",\"issues\":{},\"positives\":\"p\",\"overall_assessment\":\"\"}",
        JsonValue("object", Scalar("string", ""), List("object", <<>>),
                  List("string", <<>>), Scalar("string", "")))

T_SUMMARY_NUMBER ==
  Token("value", "{\"summary\":5,\"overall_assessment\":\"comment\"}",
        JsonValue("object", Scalar("number", "5"), NO_LIST, NO_LIST,
                  Scalar("string", "comment")))

T_REJECT ==
  Token("value", "{\"summary\":\"s\",\"overall_assessment\":\"reject\"}",
        JsonValue("object", Scalar("string", "s"), NO_LIST, NO_LIST,
                  Scalar("string", "reject")))

T_ARRAY == Token("value", "[]", JsonValue("array", UNDEFINED, NO_LIST, NO_LIST, UNDEFINED))

T_NULL == Token("value", "null", JsonValue("null", UNDEFINED, NO_LIST, NO_LIST, UNDEFINED))

T_STRING == Token("value", "\"x\"", JsonValue("string", UNDEFINED, NO_LIST, NO_LIST, UNDEFINED))

ResponseTokens ==
  {T_WS, T_FENCE, T_JSON_WORD, T_TEXT, T_COMPLETE, T_PARTIAL, T_EMPTY_STRINGS,
   T_SUMMARY_NUMBER, T_REJECT, T_ARRAY, T_NULL, T_STRING}

\* String.prototype.trim
RECURSIVE TrimStart(_)
TrimStart(s) ==
  IF s # <<>> /\ Head(s).kind = "ws" THEN TrimStart(Tail(s)) ELSE s

RECURSIVE TrimEnd(_)
TrimEnd(s) ==
  IF s # <<>> /\ s[Len(s)].kind = "ws" THEN TrimEnd(SubSeq(s, 1, Len(s) - 1)) ELSE s

Trim(s) == TrimEnd(TrimStart(s))

\* the opening fence, three backquotes, with or without the word json after
\* it: slice(7) or slice(3)
StripOpeningFence(s) ==
  IF Len(s) >= 2 /\ s[1].kind = "fence" /\ s[2].kind = "word"
  THEN SubSeq(s, 3, Len(s))
  ELSE IF Len(s) >= 1 /\ s[1].kind = "fence" THEN Tail(s)
  ELSE s

\* the closing fence: slice(0, -3)
StripClosingFence(s) ==
  IF s # <<>> /\ s[Len(s)].kind = "fence" THEN SubSeq(s, 1, Len(s) - 1) ELSE s

\* the text handed to JSON.parse
JsonStr(text) == Trim(StripClosingFence(StripOpeningFence(Trim(text))))

\* JSON.parse accepts one JSON text with white space around it
NotSpace(s) == SelectSeq(s, LAMBDA t : t.kind # "ws")

Parsable(s) == Len(NotSpace(s)) = 1 /\ NotSpace(s)[1].kind = "value"

JsonParse(s) == NotSpace(s)[1].json

\* !v
Falsy(v) ==
  \/ v.type \in {"undefined", "null"}
  \/ v.type = "string" /\ v.str = ""
  \/ v.type = "number" /\ v.str = "0"

IsArray(v) == v.type = "array"

NO_SUMMARY_PROVIDED == Scalar("string", "No summary provided")

\* the four checks of the try block, on an object
Validated(parsed) ==
  [parsed EXCEPT
     !.summary = IF Falsy(@) THEN NO_SUMMARY_PROVIDED ELSE @,
     !.issues = IF ~IsArray(@) THEN List("array", <<>>) ELSE @,
     !.positives = IF ~IsArray(@) THEN List("array", <<>>) ELSE @,
     !.overall_assessment = IF Falsy(@) THEN Scalar("string", "comment") ELSE @]

\* the result of the catch block; the issue is named by severity and title
ParseErrorResult ==
  JsonValue("object", Scalar("string", "Failed to parse AI response"),
            List("array", <<"warning: AI Response Parse Error">>),
            List("array", <<>>), Scalar("string", "comment"))

ResponseInit ==
  /\ parse = Idle /\ filter = Idle /\ split = Idle /\ glob = Idle
  /\ limit = Idle /\ merge = Idle /\ review = Idle /\ render = Idle
  /\ run = Idle /\ github = Idle /\ full = Idle
  /\ \E tokens \in SeqsUpTo(ResponseTokens, MaxResponseTokens) :
       response = [pc |-> "strip", response |-> tokens, jsonStr |-> <<>>,
                   parsed |-> NO_VALUE, result |-> NO_VALUE]

\* trim, remove the code fences, trim
ResponseStrip ==
  /\ response.pc = "strip"
  /\ response' = [response EXCEPT !.jsonStr = JsonStr(response.response),
                                  !.pc = "parse"]

\* JSON.parse returns
ResponseParsed ==
  /\ response.pc = "parse"
  /\ Parsable(response.jsonStr)
  /\ response' = [response EXCEPT !.parsed = JsonParse(response.jsonStr),
                                  !.pc = "validate"]

\* JSON.parse throws a SyntaxError
ResponseSyntaxError ==
  /\ response.pc = "parse"
  /\ ~Parsable(response.jsonStr)
  /\ response' = [response EXCEPT !.pc = "catch"]

\* parsed is an object or an array: the four checks, return parsed
ResponseValidate ==
  /\ response.pc = "validate"
  /\ response.parsed.type \in {"object", "array"}
  /\ response' = [response EXCEPT !.result = Validated(response.parsed),
                                  !.pc = "returned"]

\* parsed is null (parsed.summary throws) or a primitive (the assignment
\* parsed.summary = ... throws in a module, which is strict code)
ResponseTypeError ==
  /\ response.pc = "validate"
  /\ response.parsed.type \notin {"object", "array"}
  /\ response' = [response EXCEPT !.pc = "catch"]

\* the catch block
ResponseCatch ==
  /\ response.pc = "catch"
  /\ response' = [response EXCEPT !.result = ParseErrorResult, !.pc = "returned"]

ResponseNext ==
  \/ ResponseStrip /\ UNCHANGED <<parse, filter, split, glob, limit, merge, review, render, run, github, full>>
  \/ ResponseParsed /\ UNCHANGED <<parse, filter, split, glob, limit, merge, review, render, run, github, full>>
  \/ ResponseSyntaxError /\ UNCHANGED <<parse, filter, split, glob, limit, merge, review, render, run, github, full>>
  \/ ResponseValidate /\ UNCHANGED <<parse, filter, split, glob, limit, merge, review, render, run, github, full>>
  \/ ResponseTypeError /\ UNCHANGED <<parse, filter, split, glob, limit, merge, review, render, run, github, full>>
  \/ ResponseCatch /\ UNCHANGED <<parse, filter, split, glob, limit, merge, review, render, run, github, full>>

SpecResponse == ResponseInit /\ [][ResponseNext]_vars

ASSESSMENTS == {"approve", "request_changes", "comment"}

\* C24: for every response, parseReviewResponse returns a well-formed
\* ReviewResult: summary is a non-empty string, issues and positives are
\* arrays, and overall_assessment is one of approve, request_changes, comment.
C24_ResultWellFormed ==
  response.pc = "returned" =>
    /\ response.result.summary.type = "string"
    /\ response.result.summary.str # ""
    /\ IsArray(response.result.issues)
    /\ IsArray(response.result.positives)
    /\ response.result.overall_assessment.type = "string"
    /\ response.result.overall_assessment.str \in ASSESSMENTS

\* what does hold: the function always returns; absent or falsy fields get
\* the defaults, fields that are no arrays become [], and text that is not
\* one JSON object or array yields the parse error result
C24_DefaultsAndFallback ==
  response.pc = "returned" =>
    /\ ~Falsy(response.result.summary)
    /\ IsArray(response.result.issues)
    /\ IsArray(response.result.positives)
    /\ ~Falsy(response.result.overall_assessment)
    /\ ~Parsable(response.jsonStr) => response.result = ParseErrorResult
    /\ Parsable(response.jsonStr) /\ response.parsed = T_PARTIAL.json =>
         /\ response.result.summary = NO_SUMMARY_PROVIDED
         /\ response.result.overall_assessment = Scalar("string", "comment")


-----------------------------------------------------------------------------
(* findExistingComment and postReviewComment (github.ts)                   *)

\* the number of comments listComments returns: the call names no page and
\* no per_page, so only the first page of the pull request's comments comes
\* back (30 comments at GitHub; kept small here)
PageSize == 2
MaxComments == 3
MaxRuns == 2

REVIEW_COMMENT_MARKER == "<!-- ai-code-reviewer -->"

\* a comment body is a sequence of pieces of text
ReviewBodies == {<<"r1">>, <<"r2">>}
USER_COMMENT == <<"hello">>

\* body.includes(REVIEW_COMMENT_MARKER)
IncludesMarker(body) == \E k \in 1..Len(body) : body[k] = REVIEW_COMMENT_MARKER

\* the first page of the comments, oldest first
FirstPage(comments) ==
  SubSeq(comments, 1, IF Len(comments) < PageSize THEN Len(comments) ELSE PageSize)

\* comments.find(...)?.id ?? null, null written 0
FoundId(comments) ==
  IF \E k \in 1..Len(comments) : IncludesMarker(comments[k].body)
  THEN comments[CHOOSE k \in 1..Len(comments) :
                  /\ IncludesMarker(comments[k].body)
                  /\ \A j \in 1..(k - 1) : ~IncludesMarker(comments[j].body)].id
  ELSE 0

findExistingComment(comments) == FoundId(FirstPage(comments))

\* the comments of the pull request before the first run: ids count from 1,
\* at most one of them carries the marker
NumberComments(bodies) == [k \in 1..Len(bodies) |-> [id |-> k, body |-> bodies[k]]]

OLD_REVIEW == <<REVIEW_COMMENT_MARKER, "\n", "r0">>

InitialComments ==
  {NumberComments(bodies) : bodies \in
     {bs \in SeqsUpTo({USER_COMMENT, OLD_REVIEW}, MaxComments) :
        Cardinality({k \in 1..Len(bs) : bs[k] = OLD_REVIEW}) <= 1}}

CommentsInit ==
  /\ parse = Idle /\ filter = Idle /\ split = Idle /\ glob = Idle
  /\ limit = Idle /\ merge = Idle /\ review = Idle /\ render = Idle
  /\ response = Idle /\ run = Idle /\ full = Idle
  /\ \E comments \in InitialComments :
       github = [pc |-> "ready", comments |-> comments, nextId |-> Len(comments) + 1,
                 runs |-> 0, fullBody |-> <<>>, existingCommentId |-> 0,
                 returned |-> 0, created |-> 0, updated |-> 0]

\* somebody else comments on the pull request between two runs
CommentsUserComments ==
  /\ github.pc = "ready"
  /\ Len(github.comments) < MaxComments
  /\ github' = [github EXCEPT
                  !.comments = Append(@, [id |-> github.nextId, body |-> USER_COMMENT]),
                  !.nextId = @ + 1]

\* postReviewComment(token, context, body): fullBody = marker + '\n' + body
CommentsPost ==
  /\ github.pc = "ready"
  /\ github.runs < MaxRuns
  /\ \E body \in ReviewBodies :
       github' = [github EXCEPT
                    !.fullBody = <<REVIEW_COMMENT_MARKER, "\n">> \o body,
                    !.runs = @ + 1, !.created = 0, !.updated = 0,
                    !.pc = "find"]

\* existingCommentId = await findExistingComment(octokit, context)
CommentsFind ==
  /\ github.pc = "find"
  /\ github' = [github EXCEPT
                  !.existingCommentId = findExistingComment(github.comments),
                  !.pc = "found"]

\* if (existingCommentId): updateComment, return the id
CommentsUpdate ==
  /\ github.pc = "found"
  /\ github.existingCommentId # 0
  /\ github' = [github EXCEPT
                  !.comments = [k \in 1..Len(@) |->
                                  IF @[k].id = github.existingCommentId
                                  THEN [@[k] EXCEPT !.body = github.fullBody]
                                  ELSE @[k]],
                  !.updated = @ + 1,
                  !.returned = github.existingCommentId,
                  !.pc = "ready"]

\* otherwise: createComment, return data.id
CommentsCreate ==
  /\ github.pc = "found"
  /\ github.existingCommentId = 0
  /\ github' = [github EXCEPT
                  !.comments = Append(@, [id |-> github.nextId, body |-> github.fullBody]),
                  !.nextId = @ + 1,
                  !.created = @ + 1,
                  !.returned = github.nextId,
                  !.pc = "ready"]

CommentsNext ==
  \/ CommentsUserComments /\ UNCHANGED <<parse, filter, split, glob, limit, merge, review, render, response, run, full>>
  \/ CommentsPost /\ UNCHANGED <<parse, filter, split, glob, limit, merge, review, render, response, run, full>>
  \/ CommentsFind /\ UNCHANGED <<parse, filter, split, glob, limit, merge, review, render, response, run, full>>
  \/ CommentsUpdate /\ UNCHANGED <<parse, filter, split, glob, limit, merge, review, render, response, run, full>>
  \/ CommentsCreate /\ UNCHANGED <<parse, filter, split, glob, limit, merge, review, render, response, run, full>>

SpecComments == CommentsInit /\ [][CommentsNext]_vars

MarkerComments(comments) ==
  {k \in 1..Len(comments) : IncludesMarker(comments[k].body)}

\* C30: postReviewComment is an upsert keyed on the marker: after any number
\* of sequential runs on a pull request that started with at most one marker
\* comment, the pull request has at most one marker comment and it carries
\* the latest review body.
C30_AtMostOneMarkerComment ==
  github.pc = "ready" /\ github.runs >= 1 =>
    /\ Cardinality(MarkerComments(github.comments)) = 1
    /\ \A k \in MarkerComments(github.comments) :
         github.comments[k].body = github.fullBody

\* what does hold: a run updates the marker comment of the first page and
\* creates nothing, or finds none there and creates exactly one; with every
\* comment on the first page there is one marker comment, the latest
C30_UpsertWithinFirstPage ==
  github.pc = "ready" /\ github.runs >= 1 =>
    /\ github.created + github.updated = 1
    /\ \E k \in 1..Len(github.comments) :
         /\ github.comments[k].id = github.returned
         /\ github.comments[k].body = github.fullBody
    /\ Len(github.comments) <= PageSize =>
         /\ Cardinality(MarkerComments(github.comments)) = 1
         /\ \A k \in MarkerComments(github.comments) :
              github.comments[k].body = github.fullBody


-----------------------------------------------------------------------------
(* run, runPRReview and runFullReview (index.ts)                           *)

\* result.issues.filter(issue => issue.severity === 'critical').length
countCriticalIssues(result) ==
  Cardinality({k \in 1..Len(result.issues) : result.issues[k].severity = "critical"})

\* issues.filter(issue => issue.file && issue.line > 0)
issuesToInlineComments(issues) ==
  SelectSeq(issues, LAMBDA issue : issue.file # <<>> /\ issue.line > 0)

\* the inputs mode, output-type and fail-on-critical
RunConfigs ==
  [mode : {"pr", "full"}, outputType : {"issue", "comment", "summary"},
   failOnCritical : BOOLEAN]

\* what performReview and performFullReview can return
RunResults == ResultPool \cup {NothingToReview, ErrorResult([files |-> <<>>], 0, "Error: e")}

\* the diff of the pull request, the code collected: empty, blank or not
RunTexts == {<<>>, <<" ", "\n">>, <<"d">>}

TextIsBlank(text) == \A k \in 1..Len(text) : text[k] \in {" ", "\n"}

\* failed tells whether core.setFailed has been called, raised whether an
\* exception reached the catch block of run, thrownBy the call that threw it
RunInit ==
  /\ parse = Idle /\ filter = Idle /\ split = Idle /\ glob = Idle
  /\ limit = Idle /\ merge = Idle /\ review = Idle /\ render = Idle
  /\ response = Idle /\ github = Idle /\ full = Idle
  /\ run = [pc |-> "start", config |-> [mode |-> "pr", outputType |-> "issue",
                                        failOnCritical |-> FALSE],
            text |-> <<>>, hasResult |-> FALSE, reviewResult |-> NothingToReview,
            posted |-> FALSE, inlineComments |-> <<>>, inlinePosted |-> FALSE,
            outputsSet |-> FALSE, criticalCount |-> 0,
            failed |-> FALSE, raised |-> FALSE, thrownBy |-> "none"]

\* config = loadConfig(); then runFullReview or runPRReview
RunLoadConfig ==
  /\ run.pc = "start"
  /\ \E config \in RunConfigs :
       run' = [run EXCEPT !.config = config,
                          !.pc = IF config.mode = "full" THEN "collect" ELSE "context"]

RunLoadConfigThrows ==
  /\ run.pc = "start"
  /\ run' = [run EXCEPT !.thrownBy = "loadConfig", !.pc = "catch"]

\* prContext = getPRContext()
RunGetPRContext ==
  /\ run.pc = "context"
  /\ run' = [run EXCEPT !.pc = "diff"]

RunGetPRContextThrows ==
  /\ run.pc = "context"
  /\ run' = [run EXCEPT !.thrownBy = "getPRContext", !.pc = "catch"]

\* diff = await getPRDiff(...)
RunGetPRDiff ==
  /\ run.pc = "diff"
  /\ \E diff \in RunTexts : run' = [run EXCEPT !.text = diff, !.pc = "review"]

RunGetPRDiffThrows ==
  /\ run.pc = "diff"
  /\ run' = [run EXCEPT !.thrownBy = "getPRDiff", !.pc = "catch"]

\* if (!diff || diff.trim().length === 0) return
RunNoDiff ==
  /\ run.pc = "review"
  /\ TextIsBlank(run.text)
  /\ run' = [run EXCEPT !.pc = "completed"]

\* reviewResult = await performReview(config, diff)
RunPerformReview ==
  /\ run.pc = "review"
  /\ ~TextIsBlank(run.text)
  /\ \E result \in RunResults :
       run' = [run EXCEPT !.reviewResult = result, !.hasResult = TRUE, !.pc = "post"]

RunPerformReviewThrows ==
  /\ run.pc = "review"
  /\ ~TextIsBlank(run.text)
  /\ run' = [run EXCEPT !.thrownBy = "performReview", !.pc = "catch"]

\* commentId = await postReviewComment(...); inlineComments = ...
RunPostReviewComment ==
  /\ run.pc = "post"
  /\ run' = [run EXCEPT
               !.posted = TRUE,
               !.inlineComments = issuesToInlineComments(run.reviewResult.issues),
               !.pc = "inline"]

RunPostReviewCommentThrows ==
  /\ run.pc = "post"
  /\ run' = [run EXCEPT !.thrownBy = "postReviewComment", !.pc = "catch"]

\* if (inlineComments.length > 0) await postInlineReview(...), which catches
\* the errors of its own calls
RunPostInlineReview ==
  /\ run.pc = "inline"
  /\ run' = [run EXCEPT !.inlinePosted = Len(run.inlineComments) > 0,
                        !.pc = "outputs"]

\* codeContent = collectFilesForReview(paths)
RunCollectFiles ==
  /\ run.pc = "collect"
  /\ \E codeContent \in RunTexts :
       run' = [run EXCEPT !.text = codeContent, !.pc = "fullreview"]

\* if (!codeContent || codeContent.trim().length === 0) return
RunNoCode ==
  /\ run.pc = "fullreview"
  /\ TextIsBlank(run.text)
  /\ run' = [run EXCEPT !.pc = "completed"]

\* reviewResult = await performFullReview(config, codeContent)
RunPerformFullReview ==
  /\ run.pc = "fullreview"
  /\ ~TextIsBlank(run.text)
  /\ \E result \in RunResults :
       run' = [run EXCEPT !.reviewResult = result, !.hasResult = TRUE, !.pc = "output"]

RunPerformFullReviewThrows ==
  /\ run.pc = "fullreview"
  /\ ~TextIsBlank(run.text)
  /\ run' = [run EXCEPT !.thrownBy = "performFullReview", !.pc = "catch"]

\* case 'issue': await createReviewIssue(...)
RunCreateReviewIssue ==
  /\ run.pc = "output"
  /\ run.config.outputType = "issue"
  /\ run' = [run EXCEPT !.posted = TRUE, !.pc = "outputs"]

RunCreateReviewIssueThrows ==
  /\ run.pc = "output"
  /\ run.config.outputType = "issue"
  /\ run' = [run EXCEPT !.thrownBy = "createReviewIssue", !.pc = "catch"]

\* case 'summary', case 'comment': writeToSummary(fullReview)
RunWriteToSummary ==
  /\ run.pc = "output"
  /\ run.config.outputType \in {"summary", "comment"}
  /\ run' = [run EXCEPT !.posted = TRUE, !.pc = "outputs"]

\* criticalCount = countCriticalIssues(reviewResult); the outputs are set
RunSetOutputs ==
  /\ run.pc = "outputs"
  /\ run' = [run EXCEPT !.criticalCount = countCriticalIssues(run.reviewResult),
                        !.outputsSet = TRUE,
                        !.pc = "check"]

\* a slip that fails on a critical issue whatever fail-on-critical says
RunFailOnAnyCritical ==
  /\ run.pc = "check"
  /\ run.criticalCount > 0
  /\ run' = [run EXCEPT !.failed = TRUE, !.pc = "completed"]

\* if (config.failOnCritical && criticalCount > 0) core.setFailed(...)
RunFailOnCritical ==
  /\ run.pc = "check"
  /\ run.config.failOnCritical /\ run.criticalCount > 0
  /\ run' = [run EXCEPT !.failed = TRUE, !.pc = "completed"]

RunNoFailure ==
  /\ run.pc = "check"
  /\ ~(run.config.failOnCritical /\ run.criticalCount > 0)
  /\ run' = [run EXCEPT !.pc = "completed"]

\* the catch block of run: core.setFailed('Action failed: ...')
RunCatch ==
  /\ run.pc = "catch"
  /\ run' = [run EXCEPT !.failed = TRUE, !.raised = TRUE, !.pc = "completed"]

RunNext ==
  \/ RunLoadConfig /\ UNCHANGED <<parse, filter, split, glob, limit, merge, review, render, response, github, full>>
  \/ RunLoadConfigThrows /\ UNCHANGED <<parse, filter, split, glob, limit, merge, review, render, response, github, full>>
  \/ RunGetPRContext /\ UNCHANGED <<parse, filter, split, glob, limit, merge, review, render, response, github, full>>
  \/ RunGetPRContextThrows /\ UNCHANGED <<parse, filter, split, glob, limit, merge, review, render, response, github, full>>
  \/ RunGetPRDiff /\ UNCHANGED <<parse, filter, split, glob, limit, merge, review, render, response, github, full>>
  \/ RunGetPRDiffThrows /\ UNCHANGED <<parse, filter, split, glob, limit, merge, review, render, response, github, full>>
  \/ RunNoDiff /\ UNCHANGED <<parse, filter, split, glob, limit, merge, review, render, response, github, full>>
  \/ RunPerformReview /\ UNCHANGED <<parse, filter, split, glob, limit, merge, review, render, response, github, full>>
  \/ RunPerformReviewThrows /\ UNCHANGED <<parse, filter, split, glob, limit, merge, review, render, response, github, full>>
  \/ RunPostReviewComment /\ UNCHANGED <<parse, filter, split, glob, limit, merge, review, render, response, github, full>>
  \/ RunPostReviewCommentThrows /\ UNCHANGED <<parse, filter, split, glob, limit, merge, review, render, response, github, full>>
  \/ RunPostInlineReview /\ UNCHANGED <<parse, filter, split, glob, limit, merge, review, render, response, github, full>>
  \/ RunCollectFiles /\ UNCHANGED <<parse, filter, split, glob, limit, merge, review, render, response, github, full>>
  \/ RunNoCode /\ UNCHANGED <<parse, filter, split, glob, limit, merge, review, render, response, github, full>>
  \/ RunPerformFullReview /\ UNCHANGED <<parse, filter, split, glob, limit, merge, review, render, response, github, full>>
  \/ RunPerformFullReviewThrows /\ UNCHANGED <<parse, filter, split, glob, limit, merge, review, render, response, github, full>>
  \/ RunCreateReviewIssue /\ UNCHANGED <<parse, filter, split, glob, limit, merge, review, render, response, github, full>>
  \/ RunCreateReviewIssueThrows /\ UNCHANGED <<parse, filter, split, glob, limit, merge, review, render, response, github, full>>
  \/ RunWriteToSummary /\ UNCHANGED <<parse, filter, split, glob, limit, merge, review, render, response, github, full>>
  \/ RunSetOutputs /\ UNCHANGED <<parse, filter, split, glob, limit, merge, review, render, response, github, full>>
  \/ RunFailOnCritical /\ UNCHANGED <<parse, filter, split, glob, limit, merge, review, render, response, github, full>>
  \/ RunNoFailure /\ UNCHANGED <<parse, filter, split, glob, limit, merge, review, render, response, github, full>>
  \/ RunCatch /\ UNCHANGED <<parse, filter, split, glob, limit, merge, review, render, response, github, full>>

SpecRun == RunInit /\ [][RunNext]_vars

HasCritical(result) ==
  \E k \in 1..Len(result.issues) : result.issues[k].severity = "critical"

=============================================================================
